---------------------------- MODULE Spec2Model ----------------------------
(***************************************************************************)
(* A model of the AIthon actor runtime: the lock-free MPSC mailbox         *)
(* (include/runtime/lockfree_queue.h), the actor process and its bump heap *)
(* (src/runtime/actor_process.cpp, src/runtime/heap.cpp), the generational *)
(* collector (src/runtime/actor_gc.cpp) and the work-stealing scheduler    *)
(* (src/runtime/scheduler.cpp, src/runtime/green_threads.cpp).             *)
(*                                                                         *)
(* Each subsystem has its own specification over the shared variables; a   *)
(* specification leaves the variables of the other subsystems at their     *)
(* idle values.                                                            *)
(***************************************************************************)
EXTENDS Integers, Sequences, FiniteSets, TLC

VARIABLES
    subsystem,     \* the object exercised: "queue", "actor", "gc", "scheduler",
                   \* "green", "supervisor", "quantum", "stealing", "locks"
    mailbox_,      \* LockFreeQueue<Message>: [nodes, head, tail, uaf]
    producers,     \* per producer thread: position inside enqueue()
    dequeued,      \* what the consumer's try_dequeue() calls returned, in order
    actor,         \* one ActorProcess: [pid, state, reductions, heap, mailbox, exit_reason]
    buffer,        \* the sender's buffer that send() is given a pointer to
    sentlog,       \* the arguments of every send() that returned true
    received,      \* what every receive() that returned a message delivered
    calls,         \* number of API calls made on the actor so far
    gc,            \* one ActorGC: [young, old, roots, remembered_set, allocation_age, stats]
    slot,          \* the mutator's pointer variables (the roots are addresses of these)
    gclast,        \* the last call made on the collector and what it returned
    gccalls,       \* number of calls made on the collector so far
    scheduler,     \* one Scheduler: [next_pid_, actors_, run_queue, queue_size, total_*]
    green,         \* one GreenThreadScheduler: [next_thread_id_, green_threads_, ...]
    threads,       \* per thread (workers and callers): position and locals
    log,           \* what the calls made on the scheduler took and returned
    supervisor,    \* one Supervisor and the pids its Scheduler has handed out
    yielded,       \* the should_yield() calls of the quantum in progress
    mutexes        \* who holds each queue_mutex and the registry mutex

qvars == <<mailbox_, producers, dequeued>>
avars == <<actor, buffer, sentlog, received, calls>>
gvars == <<gc, slot, gclast, gccalls>>
svars == <<scheduler, green, threads, log>>
uvars == <<supervisor, yielded, mutexes>>

vars == <<subsystem, mailbox_, producers, dequeued, actor, buffer, sentlog, received, calls,
          gc, slot, gclast, gccalls, scheduler, green, threads, log, supervisor,
          yielded, mutexes>>

----------------------------------------------------------------------------
(* Bounds of the model                                                     *)

NumProducers == 2      \* producer threads of the mailbox specification
MaxEnqueues  == 2      \* enqueue() calls per producer
HeapSize     == 64     \* heap_size of the actor under test, in bytes
MaxCalls     == 4      \* send()/receive() calls made on the actor under test
NumData      == 2      \* distinct values a sender's buffer can hold
NumSlots     == 1      \* pointer variables of the mutator
MaxGcCalls   == 5      \* calls made on the collector under test
NumCallers   == 2      \* threads outside the scheduler that call its API
MaxSchedCalls == 2     \* spawn/send_message/kill_actor calls made on the scheduler
MaxSpawns    == 2      \* spawn calls among them
MaxQuanta    == 3      \* quanta the workers run altogether
MaxYields    == 2      \* should_yield() calls a behavior makes in one quantum
MaxLockSpawns == 4     \* spawn calls of the lock specification
PerQueue     == 2      \* actors spawned per worker in the requeue specification

----------------------------------------------------------------------------
(* Idle values: what a specification leaves the other subsystems at        *)

QueueIdle ==
    /\ mailbox_ = <<>>
    /\ producers = <<>>
    /\ dequeued = <<>>

ActorIdle ==
    /\ actor = <<>>
    /\ buffer = 0
    /\ sentlog = <<>>
    /\ received = <<>>
    /\ calls = 0

GcIdle ==
    /\ gc = <<>>
    /\ slot = <<>>
    /\ gclast = <<>>
    /\ gccalls = 0

SupervisorIdle == supervisor = <<>>

YieldIdle == yielded = <<>>

MutexIdle == mutexes = <<>>

SchedulerIdle ==
    /\ scheduler = <<>>
    /\ green = <<>>
    /\ threads = <<>>
    /\ log = <<>>

----------------------------------------------------------------------------
(* LockFreeQueue<T> (include/runtime/lockfree_queue.h)                     *)

nullptr == 0

\* Node(): the dummy node, no data, next = nullptr
NoData == [sender |-> -1, seq |-> 0]

Node(value) == [data |-> value, next |-> nullptr, freed |-> FALSE]

\* LockFreeQueue(): head_ and tail_ both point to a fresh dummy node
LockFreeQueue == [nodes |-> <<Node(NoData)>>, head |-> 1, tail |-> 1, uaf |-> FALSE]

\* enqueue, first half: new Node(value); prev_tail = tail_.exchange(new_node).
\* The new node is the next index of nodes; the old tail is q.tail.
TailExchangeStale(q, value) ==
    [q EXCEPT !.nodes = Append(@, Node(value))]

TailExchange(q, value) ==
    [q EXCEPT !.nodes = Append(@, Node(value)),
              !.tail  = Len(q.nodes) + 1]

\* enqueue, second half: prev_tail->next.store(new_node).  A store through a
\* deleted node is a use after free, recorded in uaf.
LinkNext(q, prev_tail, new_node) ==
    IF q.nodes[prev_tail].freed
    THEN [q EXCEPT !.uaf = TRUE]
    ELSE [q EXCEPT !.nodes[prev_tail].next = new_node]

\* is_empty(): head_->next == nullptr
is_empty(q) == q.nodes[q.head].next = nullptr

\* try_dequeue(): nullopt when head_->next is null; otherwise the data of
\* next, head_ = next, delete old head.
try_dequeue_peek(q) ==
    LET next == q.nodes[q.head].next
    IN  IF next = nullptr
        THEN [has_value |-> FALSE, value |-> NoData, q |-> q]
        ELSE [has_value |-> TRUE, value |-> q.nodes[next].data, q |-> q]

try_dequeue(q) ==
    LET head == q.head
        next == q.nodes[head].next
    IN  IF next = nullptr
        THEN [has_value |-> FALSE, value |-> NoData, q |-> q]
        ELSE [has_value |-> TRUE,
              value     |-> q.nodes[next].data,
              q         |-> [q EXCEPT !.head = next,
                                      !.nodes[head].freed = TRUE]]

----------------------------------------------------------------------------
(* ActorHeap (include/runtime/heap.h, src/runtime/heap.cpp)                *)
(*                                                                         *)
(* Addresses are byte offsets from heap_start_.  The object headers lying  *)
(* in [heap_start_, allocation_ptr_) are kept as the sequence objs, in     *)
(* address order; mem holds one value per 8-byte word of the arena, so     *)
(* that a later write over a word shows when the word is read again.       *)

HeaderSize    == 16     \* sizeof(ObjectHeader): size_t size; bool marked; alignas(8)
SizeofMessage == 32     \* sizeof(Message): void*, size_t, int, uint64_t
WordSize      == 8

\* what a word of the arena holds
Uninit     == 0         \* never written
HeaderWord == -1        \* part of an ObjectHeader
StructWord == -2        \* part of a Message object placed by receive()

\* size = (size + 7) & ~7
Align8(size) == ((size + 7) \div WordSize) * WordSize

Words(nbytes) == (nbytes + WordSize - 1) \div WordSize

\* ActorHeap(size)
ActorHeap(size) ==
    [total_size     |-> size,
     used_size      |-> 0,
     allocation_ptr |-> 0,
     objs           |-> <<>>,
     mem            |-> [w \in 0..(Words(size) - 1) |-> Uninit]]

\* the words [addr, addr + nbytes) of mem set to v (memcpy, placement new,
\* header write)
Fill(mem, addr, nbytes, v) ==
    [w \in DOMAIN mem |->
        IF w >= addr \div WordSize /\ w < addr \div WordSize + Words(nbytes)
        THEN v ELSE mem[w]]

\* memmove(dst, src, nbytes) on mem
MemMove(mem, dst, src, nbytes) ==
    [w \in DOMAIN mem |->
        IF w >= dst \div WordSize /\ w < dst \div WordSize + Words(nbytes)
        THEN mem[w - dst \div WordSize + src \div WordSize] ELSE mem[w]]

\* compact_heap(): the loop over the headers from heap_start_ to
\* allocation_ptr_; i is the next header, scan its address,
\* new_allocation_ptr the address the next kept object moves to.
RECURSIVE CompactLoop(_, _, _, _, _)
CompactLoop(h, i, scan, new_allocation_ptr, kept) ==
    IF i > Len(h.objs)
    THEN [h EXCEPT !.allocation_ptr = new_allocation_ptr,
                   !.used_size      = new_allocation_ptr,
                   !.objs           = kept]
    ELSE LET header   == h.objs[i]
             obj_size == HeaderSize + header.size
         IN  IF header.marked
             THEN CompactLoop(
                     [h EXCEPT !.mem = IF scan # new_allocation_ptr
                                       THEN MemMove(h.mem, new_allocation_ptr, scan, obj_size)
                                       ELSE h.mem],
                     i + 1, scan + obj_size, new_allocation_ptr + obj_size,
                     Append(kept, [header EXCEPT !.marked = FALSE]))
             ELSE CompactLoop(h, i + 1, scan + obj_size, new_allocation_ptr, kept)

compact_heap(h) == CompactLoop(h, 1, 0, 0, <<>>)

\* collect_garbage(): "just compact without proper marking"
collect_garbage(h) == compact_heap(h)

\* allocate(size): [heap, ptr], ptr = nullptr when out of memory even after
\* the collection
allocate(h, size) ==
    LET sz    == Align8(size)
        total == HeaderSize + sz
        h1    == IF h.allocation_ptr + total > h.total_size
                 THEN collect_garbage(h) ELSE h
    IN  IF h1.allocation_ptr + total > h1.total_size
        THEN [heap |-> h1, ptr |-> nullptr]
        ELSE [heap |-> [h1 EXCEPT
                          !.objs = Append(@, [size |-> sz, marked |-> FALSE]),
                          !.mem  = Fill(h1.mem, h1.allocation_ptr, HeaderSize, HeaderWord),
                          !.allocation_ptr = @ + total,
                          !.used_size      = @ + total],
              ptr  |-> h1.allocation_ptr + HeaderSize]

\* the bytes [ptr, ptr + size) as the caller reads them
ReadBytes(h, ptr, size) ==
    [i \in 1..Words(size) |-> h.mem[ptr \div WordSize + i - 1]]

\* size bytes of a buffer that holds the value v throughout
BytesOf(v, size) == [i \in 1..Words(size) |-> v]

----------------------------------------------------------------------------
(* ActorProcess (include/runtime/actor_process.h,                          *)
(* src/runtime/actor_process.cpp)                                          *)

REDUCTIONS_PER_SLICE == 2000

NoExit == [error_msg |-> "", crash_time |-> 0]

\* ActorProcess(pid, heap_size)
ActorProcess(pid, heap_size) ==
    [pid         |-> pid,
     heap        |-> ActorHeap(heap_size),
     mailbox     |-> LockFreeQueue,
     state       |-> "RUNNABLE",
     reductions  |-> REDUCTIONS_PER_SLICE,
     supervisor_pid_ |-> -1,
     monitored_by_   |-> <<>>,
     exit_reason |-> NoExit]

\* set_supervisor(pid)
set_supervisor(a, pid) == [a EXCEPT !.supervisor_pid_ = pid]

\* add_monitor(pid)
add_monitor(a, pid) == [a EXCEPT !.monitored_by_ = Append(@, pid)]

\* Message(data, sz, from); id names the send() call that built it (it is
\* not a field of the C++ struct, and no operation reads it)
Message(data, sz, from, id) ==
    [payload |-> data, size |-> sz, sender_pid |-> from, id |-> id]

\* send(), until the copy: heap_.allocate, and on failure collect_garbage
\* and a second heap_.allocate
SendAllocate(a, size) ==
    LET r1 == allocate(a.heap, size)
        r2 == IF r1.ptr = nullptr
              THEN allocate(collect_garbage(r1.heap), size)
              ELSE r1
    IN  r2

\* state_.compare_exchange_strong(WAITING, RUNNABLE)
WakeIfWaiting(state) == IF state = "WAITING" THEN "RUNNABLE" ELSE state

\* send(msg) as one call; bytes is what the sender's buffer holds:
\* [actor, ret]
send(a, bytes, size, from, id) ==
    LET r == SendAllocate(a, size)
    IN  IF r.ptr = nullptr
        THEN [actor |-> [a EXCEPT !.heap = r.heap], ret |-> FALSE]
        ELSE LET h2 == [r.heap EXCEPT !.mem = Fill(@, r.ptr, size, bytes)]
                 q1 == TailExchange(a.mailbox, Message(r.ptr, size, from, id))
                 q2 == LinkNext(q1, a.mailbox.tail, Len(q1.nodes))
             IN  [actor |-> [a EXCEPT !.heap = h2,
                                      !.mailbox = q2,
                                      !.state = WakeIfWaiting(a.state)],
                  ret   |-> TRUE]

\* receive(): [actor, msg]; msg is the Message* returned (nullptr or the
\* address of the Message placed in the heap) and value its fields
receive(a) ==
    LET d == try_dequeue(a.mailbox)
        r == allocate(a.heap, SizeofMessage)
    IN  IF d.has_value /\ r.ptr # nullptr
        THEN [actor |-> [a EXCEPT !.mailbox = d.q,
                                  !.heap = [r.heap EXCEPT
                                              !.mem = Fill(@, r.ptr, SizeofMessage, StructWord)]],
              msg   |-> r.ptr,
              value |-> d.value]
        ELSE [actor |-> [a EXCEPT !.mailbox = d.q,
                                  !.heap = IF d.has_value THEN r.heap ELSE a.heap,
                                  !.state = "WAITING"],
              msg   |-> nullptr,
              value |-> d.value]

\* handle_crash(reason); now is get_monotonic_time()
handle_crash(a, reason, now) ==
    [a EXCEPT !.state = "DEAD",
              !.exit_reason = [error_msg |-> reason, crash_time |-> now]]

\* an is_alive() that does not look at the state
always_alive(a) == TRUE

\* is_alive()
is_alive(a) == a.state # "DEAD" /\ a.state # "EXITING"

----------------------------------------------------------------------------
(* ActorGC (include/runtime/actor_gc.h, src/runtime/actor_gc.cpp)          *)
(*                                                                         *)
(* Addresses are bytes.  A generation's arena is kept as mem, one cell per *)
(* 16 bytes (sizeof(GCObjectHeader) = 16 and every object size is a        *)
(* multiple of 16): a cell is a header or 16 bytes of object data.  Every  *)
(* cell carries the header's fields, so that a pointer that no longer      *)
(* refers to a header still decodes as the code would decode it; for a     *)
(* data cell marked is the bit of the data the mark bit shares.            *)

YOUNG_GEN_SIZE == 64     \* scaled down from 512 * 1024
OLD_GEN_SIZE   == 128    \* scaled down from 8 * 1024 * 1024
PROMOTION_AGE  == 3
GCHeaderSize   == 16     \* sizeof(GCObjectHeader), alignas(16)
YoungStart     == 1024   \* young_gen_->start, as new uint8_t[] returned it
OldStart       == 2048   \* old_gen_->start

Cells(nbytes) == (nbytes + GCHeaderSize - 1) \div GCHeaderSize

FreeCell ==
    [kind |-> "free", size |-> 0, generation |-> 0, marked |-> FALSE,
     has_refs |-> FALSE, type_id |-> 0, val |-> 0]

HeaderCell(size, generation, has_refs, type_id) ==
    [kind |-> "hdr", size |-> size, generation |-> generation, marked |-> FALSE,
     has_refs |-> has_refs, type_id |-> type_id, val |-> 0]

DataCell(v) ==
    [kind |-> "data", size |-> 0, generation |-> 0, marked |-> FALSE,
     has_refs |-> FALSE, type_id |-> 0, val |-> v]

\* Generation(sz)
Generation(start, sz) ==
    [start |-> start, end |-> start + sz, alloc_ptr |-> start, size |-> sz,
     used |-> 0, mem |-> [c \in 0..(Cells(sz) - 1) |-> FreeCell]]

\* Generation::contains(ptr)
contains(gen, ptr) == ptr >= gen.start /\ ptr < gen.end

CellIx(gen, addr) == (addr - gen.start) \div GCHeaderSize

NoStats ==
    [total_collections |-> 0, young_collections |-> 0, old_collections |-> 0,
     objects_allocated |-> 0, objects_freed |-> 0, bytes_allocated |-> 0,
     bytes_freed |-> 0, promotions |-> 0]

\* ActorGC()
ActorGC ==
    [young          |-> Generation(YoungStart, YOUNG_GEN_SIZE),
     old            |-> Generation(OldStart, OLD_GEN_SIZE),
     roots          |-> <<>>,
     remembered_set |-> {},
     allocation_age |-> <<>>,      \* a function from header addresses to ages
     stats          |-> NoStats]

\* the cell at address addr, and the collector with that cell replaced
CellAt(g, addr) ==
    IF contains(g.young, addr) THEN g.young.mem[CellIx(g.young, addr)]
    ELSE g.old.mem[CellIx(g.old, addr)]

SetCell(g, addr, cell) ==
    IF contains(g.young, addr)
    THEN [g EXCEPT !.young.mem[CellIx(g.young, addr)] = cell]
    ELSE [g EXCEPT !.old.mem[CellIx(g.old, addr)] = cell]

\* (size + 15) & ~15
Align16(size) == ((size + 15) \div 16) * 16

\* the data cells [addr, addr + nbytes) of a generation's mem set to cell
FillCells(gen, addr, nbytes, cell) ==
    [c \in DOMAIN gen.mem |->
        IF c >= CellIx(gen, addr) /\ c < CellIx(gen, addr) + Cells(nbytes)
        THEN cell ELSE gen.mem[c]]

\* memcpy/memmove of nbytes inside or between arenas: the cells of dst
\* [daddr, daddr + nbytes) taken from src at saddr
CopyCells(dst, daddr, src, saddr, nbytes) ==
    [c \in DOMAIN dst.mem |->
        IF c >= CellIx(dst, daddr) /\ c < CellIx(dst, daddr) + Cells(nbytes)
        THEN src.mem[CellIx(src, saddr) + (c - CellIx(dst, daddr))]
        ELSE dst.mem[c]]

\* the bump of allocate_in_generation once the request is known to fit:
\* the header written at alloc_ptr, alloc_ptr and used advanced, the age of
\* a young object recorded: [gc, ptr]
BumpAllocate(g, which, size, type_id, has_refs) ==
    LET gen          == IF which = "young" THEN g.young ELSE g.old
        aligned_size == Align16(size)
        total_size   == GCHeaderSize + aligned_size
        header       == gen.alloc_ptr
        gen2         == [gen EXCEPT
                            !.mem = [@ EXCEPT ![CellIx(gen, header)] =
                                       HeaderCell(aligned_size,
                                                  IF which = "young" THEN 0 ELSE 1,
                                                  has_refs, type_id)],
                            !.alloc_ptr = @ + total_size,
                            !.used      = @ + total_size]
        age2         == IF which = "young"
                        THEN [a \in (DOMAIN g.allocation_age) \cup {header} |->
                                 IF a = header THEN 0 ELSE g.allocation_age[a]]
                        ELSE g.allocation_age
    IN  [gc  |-> IF which = "young"
                 THEN [g EXCEPT !.young = gen2, !.allocation_age = age2]
                 ELSE [g EXCEPT !.old = gen2],
         ptr |-> header + GCHeaderSize]

\* allocate_in_generation without its capacity test: the variant the bound
\* of C10 must tell apart from the code
allocate_unchecked(g, which, size, type_id, has_refs) ==
    BumpAllocate(g, which, size, type_id, has_refs)

\* allocate_in_generation(gen, size, type_id, has_refs), gen given by name:
\* [gc, ptr]
allocate_in_generation(g, which, size, type_id, has_refs) ==
    LET gen == IF which = "young" THEN g.young ELSE g.old
    IN  IF gen.alloc_ptr + GCHeaderSize + Align16(size) > gen.end
        THEN [gc |-> g, ptr |-> nullptr]
        ELSE BumpAllocate(g, which, size, type_id, has_refs)

\* the header a data pointer belongs to, as mark_from_roots and mark_object
\* compute it: nullptr when obj lies in neither generation
HeaderOf(g, obj) ==
    IF contains(g.young, obj) \/ contains(g.old, obj)
    THEN obj - GCHeaderSize
    ELSE nullptr

\* the pointers scan_object_references hands to its callback for the
\* object at header obj: the object is read as an array of pointers, of
\* which the model keeps one per 16 bytes
RefsOf(g, obj) ==
    IF CellAt(g, obj).has_refs
    THEN {CellAt(g, obj + GCHeaderSize * i).val : i \in 1..Cells(CellAt(g, obj).size)}
    ELSE {}

\* the headers mark_object(obj) visits from the headers in from: an object
\* whose mark bit is already set is not entered, an unmarked one is marked
\* and its references followed.  The visit order of the code's recursion
\* does not change the set, which is computed here by rounds.
MarkChildren(g, S) ==
    S \cup ({HeaderOf(g, child) :
                child \in UNION {RefsOf(g, obj) : obj \in {o \in S : ~CellAt(g, o).marked}}}
            \ {nullptr})

RECURSIVE MarkRounds(_, _, _)
MarkRounds(g, S, k) ==
    IF k = 0 THEN S ELSE MarkRounds(g, MarkChildren(g, S), k - 1)

MarkSet(g, from) ==
    MarkRounds(g, from, Cells(g.young.size) + Cells(g.old.size))

\* obj->marked = true for every header in S
SetMarked(g, S) ==
    [g EXCEPT
        !.young.mem = [c \in DOMAIN @ |->
                         IF g.young.start + c * GCHeaderSize \in S
                         THEN [@[c] EXCEPT !.marked = TRUE] ELSE @[c]],
        !.old.mem   = [c \in DOMAIN @ |->
                         IF g.old.start + c * GCHeaderSize \in S
                         THEN [@[c] EXCEPT !.marked = TRUE] ELSE @[c]]]

\* mark_object(obj)
mark_object(g, obj) ==
    IF obj = nullptr THEN g ELSE SetMarked(g, MarkSet(g, {obj}))

\* mark_from_roots(); sl holds the value of every root variable
mark_from_roots(g, sl) ==
    SetMarked(g, MarkSet(g, {HeaderOf(g, sl[g.roots[i]]) :
                                i \in {j \in 1..Len(g.roots) : sl[g.roots[j]] # nullptr}}
                            \ {nullptr}))

\* should_promote(obj): [gc, ret]
should_promote(g, obj) ==
    IF obj \in DOMAIN g.allocation_age
    THEN [gc  |-> [g EXCEPT !.allocation_age[obj] = @ + 1],
          ret |-> g.allocation_age[obj] + 1 >= PROMOTION_AGE]
    ELSE [gc |-> g, ret |-> FALSE]

\* promote_to_old(obj)
promote_to_old(g, obj) ==
    LET hdr == CellAt(g, obj)
        r   == allocate_in_generation(g, "old", hdr.size, hdr.type_id, hdr.has_refs)
    IN  IF r.ptr # nullptr
        THEN [r.gc EXCEPT
                !.old.mem = CopyCells(r.gc.old, r.ptr, r.gc.young, obj + GCHeaderSize, hdr.size),
                !.stats.promotions = @ + 1]
        ELSE r.gc

\* evacuate_survivors(): the scan of the young generation
RECURSIVE EvacuateLoop(_, _)
EvacuateLoop(g, scan) ==
    IF scan >= g.young.alloc_ptr
    THEN g
    ELSE LET header   == CellAt(g, scan)
             obj_size == GCHeaderSize + header.size
             sp       == should_promote(g, scan)
         IN  IF header.marked
             THEN EvacuateLoop(IF sp.ret THEN promote_to_old(sp.gc, scan) ELSE sp.gc,
                               scan + obj_size)
             ELSE EvacuateLoop(g, scan + obj_size)

evacuate_survivors(g) == EvacuateLoop(g, g.young.start)

\* record_collection(reason, duration), the counters only
record_collection(g) == [g EXCEPT !.stats.total_collections = @ + 1]

\* collect_young(), after the mark phase and evacuate_survivors(): the
\* young generation is reset and the collection recorded
ResetYoung(g) ==
    [record_collection(g) EXCEPT !.young.alloc_ptr = g.young.start,
                                 !.young.used = 0,
                                 !.stats.young_collections = @ + 1]

\* collect_young(), step 2: mark_object for every young object that a field
\* of an object of remembered_set_ refers to
ScanRemembered(g) ==
    IF g.remembered_set = {} THEN g
    ELSE SetMarked(g, MarkSet(g,
             {obj - GCHeaderSize :
                 obj \in {r \in UNION {RefsOf(g, old_obj) : old_obj \in g.remembered_set} :
                             r # nullptr /\ contains(g.young, r)}}))

\* collect_young()
collect_young(g, sl) ==
    ResetYoung(evacuate_survivors(ScanRemembered(mark_from_roots(g, sl))))

\* write_barrier(old_value, new_value): both branches leave the collector
\* as it is, the body of the test on new_value holds comments only
write_barrier(g, old_value, new_value) ==
    IF new_value = nullptr THEN g
    ELSE IF contains(g.young, new_value) THEN g
    ELSE g

\* sweep_young()
RECURSIVE SweepYoungLoop(_, _)
SweepYoungLoop(g, scan) ==
    IF scan >= g.young.alloc_ptr
    THEN g
    ELSE LET header   == CellAt(g, scan)
             obj_size == GCHeaderSize + header.size
             g1       == IF ~header.marked
                         THEN [g EXCEPT !.stats.objects_freed = @ + 1,
                                        !.stats.bytes_freed = @ + header.size]
                         ELSE g
         IN  SweepYoungLoop(SetCell(g1, scan, [header EXCEPT !.marked = FALSE]),
                            scan + obj_size)

sweep_young(g) == SweepYoungLoop(g, g.young.start)

\* sweep_old(): kept objects slide down; the mark bit is then cleared
\* through header, which still points at the place the object came from
RECURSIVE SweepOldLoop(_, _, _, _)
SweepOldLoop(g, scan, new_alloc_ptr, new_used) ==
    IF scan >= g.old.alloc_ptr
    THEN [g EXCEPT !.old.alloc_ptr = new_alloc_ptr, !.old.used = new_used]
    ELSE LET header   == CellAt(g, scan)
             obj_size == GCHeaderSize + header.size
         IN  IF header.marked
             THEN LET g1 == IF scan # new_alloc_ptr
                            THEN [g EXCEPT !.old.mem =
                                     CopyCells(g.old, new_alloc_ptr, g.old, scan, obj_size)]
                            ELSE g
                      g2 == SetCell(g1, scan, [CellAt(g1, scan) EXCEPT !.marked = FALSE])
                  IN  SweepOldLoop(g2, scan + obj_size,
                                   new_alloc_ptr + obj_size, new_used + obj_size)
             ELSE SweepOldLoop([g EXCEPT !.stats.objects_freed = @ + 1,
                                         !.stats.bytes_freed = @ + header.size],
                               scan + obj_size, new_alloc_ptr, new_used)

sweep_old(g) == SweepOldLoop(g, g.old.start, g.old.start, 0)

\* compact_old_generation()
RECURSIVE CompactOldLoop(_, _, _)
CompactOldLoop(g, scan, compact_ptr) ==
    IF scan >= g.old.alloc_ptr
    THEN [g EXCEPT !.old.alloc_ptr = compact_ptr,
                   !.old.used = compact_ptr - g.old.start]
    ELSE LET header   == CellAt(g, scan)
             obj_size == GCHeaderSize + header.size
         IN  IF header.marked
             THEN CompactOldLoop(
                     IF scan # compact_ptr
                     THEN [g EXCEPT !.old.mem =
                              CopyCells(g.old, compact_ptr, g.old, scan, obj_size)]
                     ELSE g,
                     scan + obj_size, compact_ptr + obj_size)
             ELSE CompactOldLoop(g, scan + obj_size, compact_ptr)

compact_old_generation(g) == CompactOldLoop(g, g.old.start, g.old.start)

\* collect_full(), after the mark phase and the two sweeps:
\* if (old_gen_->used > old_gen_->size * 0.7) compact_old_generation()
CompactIfFragmented(g) ==
    [record_collection(IF g.old.used * 10 > g.old.size * 7
                       THEN compact_old_generation(g) ELSE g)
        EXCEPT !.stats.old_collections = @ + 1]

\* collect_full()
collect_full(g, sl) == CompactIfFragmented(sweep_old(sweep_young(mark_from_roots(g, sl))))

\* collect_if_needed(): both usages are read before either collection
CollectOldIf(old_high, g, sl) == IF old_high THEN collect_full(g, sl) ELSE g

collect_if_needed(g, sl) ==
    CollectOldIf(g.old.used * 10 > g.old.size * 9,
                 IF g.young.used * 10 > g.young.size * 8 THEN collect_young(g, sl) ELSE g,
                 sl)

\* if (!ptr) ptr = <second attempt>; r and retry are [gc, ptr]
IfNull(r, retry) == IF r.ptr # nullptr THEN r ELSE retry

\* allocate_old(size, type_id, has_refs): [gc, ptr]
allocate_old(g, sl, size, type_id, has_refs) ==
    IfNull(allocate_in_generation(g, "old", size, type_id, has_refs),
           allocate_in_generation(collect_full(g, sl), "old", size, type_id, has_refs))

\* allocate(), its end: if (ptr) { stats_.objects_allocated++; ... }
CountAllocation(r, size) ==
    IF r.ptr # nullptr
    THEN [gc  |-> [r.gc EXCEPT !.stats.objects_allocated = @ + 1,
                               !.stats.bytes_allocated = @ + size],
          ptr |-> r.ptr]
    ELSE r

\* allocate(), after collect_young(): the second attempt in the young
\* generation, then allocate_old
AllocateAfterYoung(g, sl, size, type_id, has_refs) ==
    IfNull(allocate_in_generation(g, "young", size, type_id, has_refs),
           allocate_old(g, sl, size, type_id, has_refs))

\* allocate(size, type_id, has_refs): [gc, ptr]
AllocateNoCollect(g, sl, size, type_id, has_refs) ==
    CountAllocation(
        IfNull(allocate_in_generation(g, "young", size, type_id, has_refs),
               allocate_old(g, sl, size, type_id, has_refs)),
        size)

gc_allocate(g, sl, size, type_id, has_refs) ==
    CountAllocation(
        IfNull(allocate_in_generation(g, "young", size, type_id, has_refs),
               AllocateAfterYoung(collect_young(g, sl), sl, size, type_id, has_refs)),
        size)

\* add_root(root) / remove_root(root); a root is the address of a mutator
\* variable, here the variable's index
add_root(g, root) == [g EXCEPT !.roots = Append(@, root)]

remove_root(g, root) == [g EXCEPT !.roots = SelectSeq(@, LAMBDA r : r # root)]

----------------------------------------------------------------------------
(* The mailbox specification: NumProducers threads call enqueue()          *)
(* concurrently, one consumer calls try_dequeue().                         *)

Producers == 1..NumProducers

InitQueue ==
    /\ subsystem = "queue"
    /\ SupervisorIdle
    /\ MutexIdle
    /\ YieldIdle
    /\ mailbox_ = LockFreeQueue
    /\ producers = [p \in Producers |->
                      [pc |-> "idle", new_node |-> nullptr, prev_tail |-> nullptr, sent |-> 0]]
    /\ dequeued = <<>>
    /\ ActorIdle
    /\ GcIdle
    /\ SchedulerIdle

\* producer p enters enqueue() with its next message and swings tail_
EnqueueExchange(p) ==
    /\ producers[p].pc = "idle"
    /\ producers[p].sent < MaxEnqueues
    /\ LET value == [sender |-> p, seq |-> producers[p].sent + 1]
           q2    == TailExchange(mailbox_, value)
       IN  /\ mailbox_' = q2
           /\ producers' = [producers EXCEPT ![p] =
                               [pc |-> "link", new_node |-> Len(q2.nodes),
                                prev_tail |-> mailbox_.tail, sent |-> @.sent + 1]]
    /\ UNCHANGED <<subsystem, uvars, svars, dequeued, avars, gvars>>

\* producer p stores the link and returns from enqueue()
EnqueueLink(p) ==
    /\ producers[p].pc = "link"
    /\ mailbox_' = LinkNext(mailbox_, producers[p].prev_tail, producers[p].new_node)
    /\ producers' = [producers EXCEPT ![p].pc = "idle",
                                      ![p].new_node = nullptr,
                                      ![p].prev_tail = nullptr]
    /\ UNCHANGED <<subsystem, uvars, svars, dequeued, avars, gvars>>

\* the consumer calls try_dequeue() and gets a message
DequeueSome ==
    /\ try_dequeue(mailbox_).has_value
    /\ mailbox_' = try_dequeue(mailbox_).q
    /\ dequeued' = Append(dequeued, try_dequeue(mailbox_).value)
    /\ UNCHANGED <<subsystem, uvars, svars, producers, avars, gvars>>

NextQueue ==
    \/ \E p \in Producers : EnqueueExchange(p)
    \/ \E p \in Producers : EnqueueLink(p)
    \/ DequeueSome

SpecQueue == InitQueue /\ [][NextQueue]_vars

----------------------------------------------------------------------------
(* C1: the messages one sender enqueued are dequeued in the order that     *)
(* sender issued them, whatever the interleaving of the producers: the     *)
(* sequence numbers of each sender appear in dequeued as 1, 2, 3, ...      *)

RECURSIVE SelectSender(_, _)
SelectSender(s, p) ==
    IF s = <<>> THEN <<>>
    ELSE IF Head(s).sender = p
         THEN <<Head(s).seq>> \o SelectSender(Tail(s), p)
         ELSE SelectSender(Tail(s), p)

C1_FifoPerSender ==
    \A p \in Producers :
        LET mine == SelectSender(dequeued, p)
        IN  \A i \in 1..Len(mine) : mine[i] = i

\* two senders' messages have been dequeued interleaved, each sender's
\* second message included
C1_Witness ==
    /\ Len(dequeued) >= 3
    /\ dequeued[1].sender # dequeued[2].sender
    /\ \A p \in Producers : Len(SelectSender(dequeued, p)) >= 1
    /\ \E i \in 1..Len(dequeued) : dequeued[i].seq = 2

----------------------------------------------------------------------------
(* The actor specification: one ActorProcess, as in tests/test_actors.cpp; *)
(* one thread calls send() and receive() on it in any order and the        *)
(* sender rewrites its buffer between the calls.                           *)

Data       == 1..NumData
SenderPids == {0, 2}
MsgSizes   == {4, 12}

InitActor ==
    /\ subsystem = "actor"
    /\ SupervisorIdle
    /\ MutexIdle
    /\ YieldIdle
    /\ actor = ActorProcess(1, HeapSize)
    /\ buffer = 1
    /\ sentlog = <<>>
    /\ received = <<>>
    /\ calls = 0
    /\ QueueIdle
    /\ GcIdle
    /\ SchedulerIdle

\* the sender writes v over its buffer
WriteBuffer(v) ==
    /\ v # buffer
    /\ buffer' = v
    /\ UNCHANGED <<subsystem, uvars, svars, actor, sentlog, received, calls, qvars, gvars>>

\* actor.send(Message(&buffer, size, from))
ActorSend(from, size) ==
    /\ calls < MaxCalls
    /\ LET r == send(actor, buffer, size, from, Len(sentlog) + 1)
       IN  /\ actor' = r.actor
           /\ sentlog' = IF r.ret
                         THEN Append(sentlog, [sender_pid |-> from, size |-> size,
                                               bytes |-> BytesOf(buffer, size)])
                         ELSE sentlog
    /\ calls' = calls + 1
    /\ UNCHANGED <<subsystem, uvars, svars, buffer, received, qvars, gvars>>

\* actor.receive(); a returned message is read at once through the pointer
ActorReceive ==
    /\ calls < MaxCalls
    /\ LET r == receive(actor)
       IN  /\ actor' = r.actor
           /\ received' = IF r.msg # nullptr
                          THEN Append(received,
                                      [id         |-> r.value.id,
                                       sender_pid |-> r.value.sender_pid,
                                       size       |-> r.value.size,
                                       bytes      |-> ReadBytes(r.actor.heap, r.value.payload,
                                                                r.value.size)])
                          ELSE received
    /\ calls' = calls + 1
    /\ UNCHANGED <<subsystem, uvars, svars, buffer, sentlog, qvars, gvars>>

NextActor ==
    \/ \E v \in Data : WriteBuffer(v)
    \/ \E from \in SenderPids, size \in MsgSizes : ActorSend(from, size)
    \/ ActorReceive

SpecActor == InitActor /\ [][NextActor]_vars

----------------------------------------------------------------------------
(* C2: every message returned by receive() carries the sender_pid, the     *)
(* size and the payload bytes that were passed to the send() that produced *)
(* it, whatever was sent or collected in between.                          *)

C2_PayloadIntegrity ==
    \A i \in 1..Len(received) :
        LET r == received[i]
            s == sentlog[r.id]
        IN  /\ r.sender_pid = s.sender_pid
            /\ r.size = s.size
            /\ r.bytes = s.bytes

----------------------------------------------------------------------------
(* The collector specification: one ActorGC and its mutator, which         *)
(* allocates into its pointer variables, registers and unregisters them as *)
(* roots and calls the collections.                                        *)

Slots   == 1..NumSlots
GcSizes == {8, 72}

InitGc ==
    /\ subsystem = "gc"
    /\ SupervisorIdle
    /\ MutexIdle
    /\ YieldIdle
    /\ gc = ActorGC
    /\ slot = [s \in Slots |-> nullptr]
    /\ gclast = [op |-> "none", size |-> 0, ptr |-> nullptr,
                 kept |-> [s \in Slots |-> 0]]
    /\ gccalls = 0
    /\ QueueIdle
    /\ ActorIdle
    /\ SchedulerIdle

\* the generation of g that holds the address ptr
GenOf(g, ptr) == IF contains(g.young, ptr) THEN g.young ELSE g.old

\* ptr is the data pointer of an allocated object of g: a header lies before
\* it and the whole object lies below the allocation cursor
IsObject(g, ptr) ==
    /\ ptr # nullptr
    /\ contains(g.young, ptr) \/ contains(g.old, ptr)
    /\ ptr - GCHeaderSize >= GenOf(g, ptr).start
    /\ CellAt(g, ptr - GCHeaderSize).kind = "hdr"
    /\ ptr + CellAt(g, ptr - GCHeaderSize).size <= GenOf(g, ptr).alloc_ptr

\* what the mutator saw last: the call, its argument and its result, and for
\* every pointer variable the number of collect_young() passes in a row that
\* the object it refers to has gone through as a registered root
Last(op, size, ptr, g2, sl2) ==
    LET passes    == g2.stats.young_collections - gc.stats.young_collections
        Rooted(s) == \E i \in 1..Len(g2.roots) : g2.roots[i] = s
    IN  [op |-> op, size |-> size, ptr |-> ptr,
         kept |-> [s \in Slots |->
                      IF sl2[s] # slot[s] \/ sl2[s] = nullptr \/ ~Rooted(s) THEN 0
                      ELSE IF gclast.kept[s] = 0 /\ ~IsObject(gc, sl2[s]) THEN 0
                      ELSE gclast.kept[s] + passes]]

\* the object at ptr filled with the value v by the mutator
StoreData(g, ptr, size, v) ==
    IF ptr = nullptr THEN g
    ELSE IF contains(g.young, ptr)
         THEN [g EXCEPT !.young.mem = FillCells(g.young, ptr, Align16(size), DataCell(v))]
         ELSE [g EXCEPT !.old.mem = FillCells(g.old, ptr, Align16(size), DataCell(v))]

\* the mutator keeps the returned pointer in slot[s] and fills the object
\* with a value of its own
KeepResult(r, s, size, op) ==
    /\ gc' = StoreData(r.gc, r.ptr, size, gccalls + 1)
    /\ slot' = [slot EXCEPT ![s] = r.ptr]
    /\ gclast' = Last(op, size, r.ptr, gc', slot')

\* slot[s] = gc.allocate(size)
GcAllocate(s, size) ==
    /\ gccalls < MaxGcCalls
    /\ KeepResult(gc_allocate(gc, slot, size, 0, FALSE), s, size, "allocate")
    /\ gccalls' = gccalls + 1
    /\ UNCHANGED <<subsystem, uvars, svars, qvars, avars>>

\* slot[s] = gc.allocate_old(size)
GcAllocateOld(s, size) ==
    /\ gccalls < MaxGcCalls
    /\ KeepResult(allocate_old(gc, slot, size, 0, FALSE), s, size, "allocate_old")
    /\ gccalls' = gccalls + 1
    /\ UNCHANGED <<subsystem, uvars, svars, qvars, avars>>

\* gc.add_root(&slot[s]) for a variable that is not yet a root
GcAddRoot(s) ==
    /\ gccalls < MaxGcCalls
    /\ \A i \in 1..Len(gc.roots) : gc.roots[i] # s
    /\ gc' = add_root(gc, s)
    /\ gclast' = Last("add_root", 0, nullptr, gc', slot)
    /\ gccalls' = gccalls + 1
    /\ UNCHANGED <<subsystem, uvars, svars, slot, qvars, avars>>

\* gc.remove_root(&slot[s])
GcRemoveRoot(s) ==
    /\ gccalls < MaxGcCalls
    /\ \E i \in 1..Len(gc.roots) : gc.roots[i] = s
    /\ gc' = remove_root(gc, s)
    /\ gclast' = Last("remove_root", 0, nullptr, gc', slot)
    /\ gccalls' = gccalls + 1
    /\ UNCHANGED <<subsystem, uvars, svars, slot, qvars, avars>>

GcCollectYoung ==
    /\ gccalls < MaxGcCalls
    /\ gc' = collect_young(gc, slot)
    /\ gclast' = Last("collect_young", 0, nullptr, gc', slot)
    /\ gccalls' = gccalls + 1
    /\ UNCHANGED <<subsystem, uvars, svars, slot, qvars, avars>>

GcCollectFull ==
    /\ gccalls < MaxGcCalls
    /\ gc' = collect_full(gc, slot)
    /\ gclast' = Last("collect_full", 0, nullptr, gc', slot)
    /\ gccalls' = gccalls + 1
    /\ UNCHANGED <<subsystem, uvars, svars, slot, qvars, avars>>

GcCollectIfNeeded ==
    /\ gccalls < MaxGcCalls
    /\ gc' = collect_if_needed(gc, slot)
    /\ gclast' = Last("collect_if_needed", 0, nullptr, gc', slot)
    /\ gccalls' = gccalls + 1
    /\ UNCHANGED <<subsystem, uvars, svars, slot, qvars, avars>>

NextGc ==
    \/ \E s \in Slots, size \in GcSizes : GcAllocate(s, size)
    \/ \E s \in Slots, size \in GcSizes : GcAllocateOld(s, size)
    \/ \E s \in Slots : GcAddRoot(s)
    \/ \E s \in Slots : GcRemoveRoot(s)
    \/ GcCollectYoung
    \/ GcCollectFull
    \/ GcCollectIfNeeded

SpecGc == InitGc /\ [][NextGc]_vars

----------------------------------------------------------------------------
(* Scheduler (include/runtime/scheduler.h, src/runtime/scheduler.cpp)      *)
(*                                                                         *)
(* Threads are numbered: the workers are 0..NumWorkers-1, the threads that *)
(* call the scheduler's API from outside follow.  A thread is a record     *)
(* [pc, pid, worker, seen, ptr, flag]: its position, the actor it works    *)
(* on, chosen_worker, and the values it has read into locals.              *)

NumWorkers      == 2        \* Scheduler scheduler(2)
STEAL_THRESHOLD == 10
NoPid           == -1
ExternalPid     == -1       \* from_pid of a message sent from outside any actor
PayloadSize     == 4        \* sizeof(int), as the tests send

Workers == 0..(NumWorkers - 1)
Callers == NumWorkers..(NumWorkers + NumCallers - 1)
Pids    == 0..MaxSpawns     \* MaxSpawns itself is never handed out

ThreadAt(pc) ==
    [pc |-> pc, pid |-> NoPid, worker |-> 0, seen |-> <<>>, ptr |-> nullptr, flag |-> FALSE]

\* Scheduler(num_threads)
Scheduler ==
    [next_pid_             |-> 0,
     actors_               |-> <<>>,       \* a function from pids to ActorProcess
     run_queue             |-> [w \in Workers |-> <<>>],
     queue_size            |-> [w \in Workers |-> 0],
     running               |-> [w \in Workers |-> TRUE],
     system_running_       |-> TRUE,
     total_messages_sent_  |-> 0,
     total_reductions_     |-> 0,
     total_actors_spawned_ |-> 0]

\* a fetch_add that leaves the counter alone
fetch_add_lost(v) == v

\* next_pid_.fetch_add(1): the new value of the counter (the call returns
\* the old one)
fetch_add(v) == v + 1

\* choose_worker(): the first worker among those with the smallest
\* queue_size
choose_worker(s) ==
    CHOOSE w \in Workers :
        \A v \in Workers : \/ s.queue_size[w] < s.queue_size[v]
                           \/ s.queue_size[w] = s.queue_size[v] /\ w <= v

\* actors_[pid] = std::move(actor)
Register(s, pid, a) ==
    [s EXCEPT !.actors_ = [p \in (DOMAIN s.actors_) \cup {pid} |->
                              IF p = pid THEN a ELSE s.actors_[p]]]

\* schedule_actor(pid, worker_id)
schedule_actor(s, pid, worker_id) ==
    IF pid \notin DOMAIN s.actors_
    THEN s
    ELSE [s EXCEPT !.run_queue[worker_id] = Append(@, pid),
                   !.queue_size[worker_id] = @ + 1]

\* a steal_work that leaves the victim's queue as it was
steal_work_copy(s, thief_id, victim_id) ==
    LET q           == s.run_queue[victim_id]
        steal_count == Len(q) \div 2
    IN  IF victim_id = thief_id \/ steal_count = 0
        THEN s
        ELSE [s EXCEPT !.run_queue[thief_id] =
                           @ \o [i \in 1..steal_count |-> q[Len(q) + 1 - i]],
                       !.queue_size[thief_id] = @ + steal_count]

\* steal_work(thief_id) once dist(thief.rng) has drawn victim_id: nothing
\* when the victim is the thief itself or half its queue is nothing;
\* otherwise, under both queue mutexes, steal_count actors go from the back
\* of the victim's queue to the back of the thief's, one at a time
steal_work(s, thief_id, victim_id) ==
    LET q           == s.run_queue[victim_id]
        steal_count == Len(q) \div 2
    IN  IF victim_id = thief_id \/ steal_count = 0
        THEN s
        ELSE [s EXCEPT !.run_queue[victim_id] = SubSeq(q, 1, Len(q) - steal_count),
                       !.run_queue[thief_id] =
                           @ \o [i \in 1..steal_count |-> q[Len(q) + 1 - i]],
                       !.queue_size[victim_id] = @ - steal_count,
                       !.queue_size[thief_id] = @ + steal_count]

\* should_steal_work(worker_id)
should_steal_work(s, worker_id) ==
    /\ s.queue_size[worker_id] < 2
    /\ \E i \in Workers : i # worker_id /\ s.queue_size[i] > STEAL_THRESHOLD

\* actors_mutex_ is held across steps only by kill_actor, while it writes
\* the exit reason
actors_mutex_held ==
    \E t \in DOMAIN threads : threads[t].pc \in {"kill_write", "wait_count"}

\* exit_reason_ as a thread leaves it.  handle_crash writes the
\* std::string and the time with plain stores: when another thread is
\* inside handle_crash of the same actor the two writes race and the string
\* may hold neither reason.
Torn == [error_msg |-> "<torn>", crash_time |-> 0]

ExitReasons(t, pid, reason, now) ==
    IF \E u \in DOMAIN threads :
          /\ u # t
          /\ threads[u].pc \in {"kill_write", "crash_write"}
          /\ threads[u].pid = pid
    THEN {[error_msg |-> reason, crash_time |-> now], Torn}
    ELSE {[error_msg |-> reason, crash_time |-> now]}

----------------------------------------------------------------------------
(* The scheduler specification: NumWorkers worker threads run              *)
(* worker_loop; NumCallers threads call spawn, send_message and kill_actor *)
(* in any order; a behavior is any sequence of receive() calls ended by a  *)
(* return or a throw.                                                      *)

\* the log of a run whose workers run at most max_quanta quanta
Log(max_quanta) ==
    [calls |-> 0, taken |-> <<>>, returned |-> <<>>, died |-> {},
     sent |-> 0, clock |-> 0, max_quanta |-> max_quanta,
     steals |-> <<>>, shutdowns |-> 0,
     calling |-> [op |-> "none", thread |-> NoPid, pid |-> NoPid],
     last |-> [op |-> "none", thread |-> NoPid, pid |-> NoPid, ret |-> FALSE]]

InitThreads ==
    /\ threads = [t \in Workers \cup Callers |->
                     IF t \in Workers THEN ThreadAt("idle") ELSE ThreadAt("ready")]
    /\ log = Log(MaxQuanta)

InitSched ==
    /\ subsystem = "scheduler"
    /\ SupervisorIdle
    /\ MutexIdle
    /\ YieldIdle
    /\ scheduler = Scheduler
    /\ InitThreads
    /\ green = <<>>
    /\ QueueIdle
    /\ ActorIdle
    /\ GcIdle

Returns(t, op, pid, ret) ==
    [log EXCEPT !.last = [op |-> op, thread |-> t, pid |-> pid, ret |-> ret]]

\* the call number and the call that a thread starts
Calls(l, t, op, pid) ==
    [l EXCEPT !.calls = @ + 1, !.calling = [op |-> op, thread |-> t, pid |-> pid]]

CanCall(t) ==
    /\ threads[t].pc = "ready"
    /\ log.calls < MaxSchedCalls

\* spawn: pid = next_pid_.fetch_add(1); make_unique<ActorProcess>
SpawnFetchAdd(t) ==
    /\ CanCall(t)
    /\ Len(log.taken) < MaxSpawns
    /\ scheduler' = [scheduler EXCEPT !.next_pid_ = fetch_add(@)]
    /\ threads' = [threads EXCEPT ![t] =
                      [ThreadAt("spawn_register") EXCEPT !.pid = scheduler.next_pid_]]
    /\ log' = [Calls(log, t, "spawn", NoPid) EXCEPT !.taken = Append(@, scheduler.next_pid_)]
    /\ UNCHANGED <<subsystem, uvars, green, qvars, avars, gvars>>

\* spawn: choose_worker(); actors_[pid] = actor under actors_mutex_;
\* total_actors_spawned_.fetch_add(1)
SpawnRegister(t) ==
    /\ threads[t].pc = "spawn_register"
    /\ ~actors_mutex_held
    /\ scheduler' = [Register(scheduler, threads[t].pid,
                              ActorProcess(threads[t].pid, HeapSize))
                        EXCEPT !.total_actors_spawned_ = @ + 1]
    /\ threads' = [threads EXCEPT ![t].pc = "spawn_schedule",
                                  ![t].worker = choose_worker(scheduler)]
    /\ UNCHANGED <<subsystem, uvars, green, log, qvars, avars, gvars>>

\* spawn: schedule_actor(pid, chosen_worker); return pid
SpawnSchedule(t) ==
    /\ threads[t].pc = "spawn_schedule"
    /\ ~actors_mutex_held
    /\ scheduler' = schedule_actor(scheduler, threads[t].pid, threads[t].worker)
    /\ threads' = [threads EXCEPT ![t] = ThreadAt("ready")]
    /\ log' = [Returns(t, "spawn", threads[t].pid, TRUE)
                  EXCEPT !.returned = Append(@, threads[t].pid)]
    /\ UNCHANGED <<subsystem, uvars, green, qvars, avars, gvars>>

SetActor(s, pid, a) == [s EXCEPT !.actors_[pid] = a]

\* send_message(ExternalPid, to, &data, PayloadSize): the lookup under
\* actors_mutex_; false when the pid is not registered or the actor is not
\* alive
SendLookup(t, to) ==
    /\ CanCall(t)
    /\ ~actors_mutex_held
    /\ IF to \notin DOMAIN scheduler.actors_ \/ ~is_alive(scheduler.actors_[to])
       THEN /\ log' = Calls(Returns(t, "send_message", to, FALSE), t, "send_message", to)
            /\ UNCHANGED threads
       ELSE /\ log' = Calls(log, t, "send_message", to)
            /\ threads' = [threads EXCEPT ![t] = [ThreadAt("send_alloc") EXCEPT !.pid = to]]
    /\ UNCHANGED <<subsystem, uvars, green, scheduler, qvars, avars, gvars>>

\* to_actor->send: heap_.allocate reads the receiver's cursor
SendHeapRead(t) ==
    /\ threads[t].pc = "send_alloc"
    /\ threads' = [threads EXCEPT ![t].pc = "send_copy",
                                  ![t].seen = scheduler.actors_[threads[t].pid].heap]
    /\ UNCHANGED <<subsystem, uvars, green, scheduler, log, qvars, avars, gvars>>

\* to_actor->send: heap_.allocate (with collect_garbage and a second try
\* when it fails) stores the cursor it computed from what it read, and the
\* payload is copied in; false when there is still no space
SendHeapWrite(t) ==
    /\ threads[t].pc = "send_copy"
    /\ LET to == threads[t].pid
           r  == SendAllocate([heap |-> threads[t].seen], PayloadSize)
       IN  IF r.ptr = nullptr
           THEN /\ scheduler' = SetActor(scheduler, to,
                                    [scheduler.actors_[to] EXCEPT !.heap = r.heap])
                /\ threads' = [threads EXCEPT ![t] = ThreadAt("ready")]
                /\ log' = Returns(t, "send_message", to, FALSE)
           ELSE /\ scheduler' = SetActor(scheduler, to,
                                    [scheduler.actors_[to] EXCEPT
                                        !.heap = [r.heap EXCEPT
                                                    !.mem = Fill(@, r.ptr, PayloadSize, 1)]])
                /\ threads' = [threads EXCEPT ![t].pc = "send_enqueue",
                                              ![t].seen = <<>>,
                                              ![t].ptr = r.ptr]
                /\ UNCHANGED log
    /\ UNCHANGED <<subsystem, uvars, green, qvars, avars, gvars>>

\* to_actor->send: mailbox_.enqueue(local_msg)
SendEnqueue(t) ==
    /\ threads[t].pc = "send_enqueue"
    /\ LET to == threads[t].pid
           a  == scheduler.actors_[to]
           q1 == TailExchange(a.mailbox,
                              Message(threads[t].ptr, PayloadSize, ExternalPid, log.sent + 1))
       IN  scheduler' = SetActor(scheduler, to,
                           [a EXCEPT !.mailbox = LinkNext(q1, a.mailbox.tail, Len(q1.nodes))])
    /\ threads' = [threads EXCEPT ![t].pc = "send_wake"]
    /\ log' = [log EXCEPT !.sent = @ + 1]
    /\ UNCHANGED <<subsystem, uvars, green, qvars, avars, gvars>>

\* to_actor->send: the compare_exchange WAITING -> RUNNABLE; then
\* total_messages_sent_.fetch_add(1), the notify_one of every worker, and
\* return true
SendWake(t) ==
    /\ threads[t].pc = "send_wake"
    /\ LET to == threads[t].pid
           a  == scheduler.actors_[to]
       IN  /\ scheduler' = [SetActor(scheduler, to, [a EXCEPT !.state = WakeIfWaiting(@)])
                               EXCEPT !.total_messages_sent_ = @ + 1]
           /\ log' = Returns(t, "send_message", to, TRUE)
    /\ threads' = [threads EXCEPT ![t] = ThreadAt("ready")]
    /\ UNCHANGED <<subsystem, uvars, green, qvars, avars, gvars>>

\* kill_actor(pid): the lookup under actors_mutex_ and, for a registered
\* pid, handle_crash's state_.store(DEAD)
KillActor(t, pid) ==
    /\ CanCall(t)
    /\ ~actors_mutex_held
    /\ IF pid \notin DOMAIN scheduler.actors_
       THEN /\ log' = Calls(Returns(t, "kill_actor", pid, FALSE), t, "kill_actor", pid)
            /\ UNCHANGED <<scheduler, threads>>
       ELSE /\ scheduler' = SetActor(scheduler, pid,
                                [scheduler.actors_[pid] EXCEPT !.state = "DEAD"])
            /\ threads' = [threads EXCEPT ![t] = [ThreadAt("kill_write") EXCEPT !.pid = pid]]
            /\ log' = [Calls(log, t, "kill_actor", pid) EXCEPT !.died = @ \cup {pid}]
    /\ UNCHANGED <<subsystem, uvars, green, qvars, avars, gvars>>

\* kill_actor(pid): handle_crash's writes of exit_reason_, and the unlock
KillFinish(t) ==
    /\ threads[t].pc = "kill_write"
    /\ \E reason \in ExitReasons(t, threads[t].pid, "killed", log.clock + 1) :
          scheduler' = SetActor(scheduler, threads[t].pid,
                          [scheduler.actors_[threads[t].pid] EXCEPT !.exit_reason = reason])
    /\ threads' = [threads EXCEPT ![t] = ThreadAt("ready")]
    /\ log' = [Returns(t, "kill_actor", threads[t].pid, TRUE) EXCEPT !.clock = @ + 1]
    /\ UNCHANGED <<subsystem, uvars, green, qvars, avars, gvars>>

\* worker_loop: running is true and get_next_actor(worker_id) found an
\* actor (with an empty queue the worker waits on queue_cv for at most 10 ms
\* and looks again)
WorkerGetNext(w) ==
    /\ threads[w].pc = "idle"
    /\ scheduler.running[w]
    /\ scheduler.run_queue[w] # <<>>
    /\ scheduler.total_reductions_ < log.max_quanta * REDUCTIONS_PER_SLICE
    /\ scheduler' = [scheduler EXCEPT !.run_queue[w] = Tail(@),
                                      !.queue_size[w] = @ - 1]
    /\ threads' = [threads EXCEPT ![w] =
                      [ThreadAt("execute") EXCEPT !.pid = Head(scheduler.run_queue[w])]]
    /\ UNCHANGED <<subsystem, uvars, green, log, qvars, avars, gvars>>

\* execute_quantum: the compare_exchange RUNNABLE -> RUNNING; on success
\* the reductions are reset and the behavior is entered, otherwise the
\* call returns false
WorkerExecuteQuantumStore(w) ==
    /\ threads[w].pc = "execute"
    /\ LET a == scheduler.actors_[threads[w].pid]
       IN  /\ scheduler' = SetActor(scheduler, a.pid,
                               [a EXCEPT !.state = "RUNNING",
                                         !.reductions = REDUCTIONS_PER_SLICE])
           /\ threads' = [threads EXCEPT ![w].pc = "behavior"]
    /\ UNCHANGED <<subsystem, uvars, green, log, qvars, avars, gvars>>

WorkerExecuteQuantum(w) ==
    /\ threads[w].pc = "execute"
    /\ LET a == scheduler.actors_[threads[w].pid]
       IN  IF a.state = "RUNNABLE"
           THEN /\ scheduler' = SetActor(scheduler, a.pid,
                                    [a EXCEPT !.state = "RUNNING",
                                              !.reductions = REDUCTIONS_PER_SLICE])
                /\ threads' = [threads EXCEPT ![w].pc = "behavior"]
           ELSE /\ threads' = [threads EXCEPT ![w].pc = "after", ![w].flag = FALSE]
                /\ UNCHANGED scheduler
    /\ UNCHANGED <<subsystem, uvars, green, log, qvars, avars, gvars>>

\* the behavior calls self->receive()
BehaviorReceive(w) ==
    /\ threads[w].pc = "behavior"
    /\ LET r == receive(scheduler.actors_[threads[w].pid])
       IN  /\ r.actor # scheduler.actors_[threads[w].pid]
           /\ scheduler' = SetActor(scheduler, threads[w].pid, r.actor)
    /\ UNCHANGED <<subsystem, uvars, green, threads, log, qvars, avars, gvars>>

\* the behavior throws: execute_quantum catches it and handle_crash stores
\* DEAD
BehaviorThrow(w) ==
    /\ threads[w].pc = "behavior"
    /\ scheduler' = SetActor(scheduler, threads[w].pid,
                        [scheduler.actors_[threads[w].pid] EXCEPT !.state = "DEAD"])
    /\ threads' = [threads EXCEPT ![w].pc = "crash_write"]
    /\ log' = [log EXCEPT !.died = @ \cup {threads[w].pid}]
    /\ UNCHANGED <<subsystem, uvars, green, qvars, avars, gvars>>

\* handle_crash's writes of exit_reason_; execute_quantum returns false
WorkerCrashFinish(w) ==
    /\ threads[w].pc = "crash_write"
    /\ \E reason \in ExitReasons(w, threads[w].pid, "error", log.clock + 1) :
          scheduler' = SetActor(scheduler, threads[w].pid,
                          [scheduler.actors_[threads[w].pid] EXCEPT !.exit_reason = reason])
    /\ threads' = [threads EXCEPT ![w].pc = "after", ![w].flag = FALSE]
    /\ log' = [log EXCEPT !.clock = @ + 1]
    /\ UNCHANGED <<subsystem, uvars, green, qvars, avars, gvars>>

\* the behavior returns; execute_quantum loads state_ into current
BehaviorReturn(w) ==
    /\ threads[w].pc = "behavior"
    /\ threads' = [threads EXCEPT
                      ![w].pc = "quantum_store",
                      ![w].flag = (scheduler.actors_[threads[w].pid].state = "RUNNING")]
    /\ UNCHANGED <<subsystem, uvars, green, scheduler, log, qvars, avars, gvars>>

\* execute_quantum: if (current == RUNNING) state_.store(RUNNABLE);
\* return true
WorkerQuantumStore(w) ==
    /\ threads[w].pc = "quantum_store"
    /\ scheduler' = IF threads[w].flag
                    THEN SetActor(scheduler, threads[w].pid,
                             [scheduler.actors_[threads[w].pid] EXCEPT !.state = "RUNNABLE"])
                    ELSE scheduler
    /\ threads' = [threads EXCEPT ![w].pc = "after", ![w].flag = TRUE]
    /\ UNCHANGED <<subsystem, uvars, green, log, qvars, avars, gvars>>

\* worker_loop after execute_quantum: the actor is put back when the call
\* returned true and the actor is alive and RUNNABLE; total_reductions_ is
\* advanced; steal_work comes next when should_steal_work says so.
WorkerAfterQuantum(w) ==
    /\ threads[w].pc = "after"
    /\ LET a  == scheduler.actors_[threads[w].pid]
           s1 == IF threads[w].flag /\ is_alive(a) /\ a.state = "RUNNABLE"
                 THEN schedule_actor(scheduler, a.pid, w)
                 ELSE scheduler
       IN  /\ s1 # scheduler => ~actors_mutex_held
           /\ scheduler' = [s1 EXCEPT !.total_reductions_ = @ + REDUCTIONS_PER_SLICE]
           /\ threads' = [threads EXCEPT ![w] =
                             IF should_steal_work(s1, w)
                             THEN ThreadAt("steal") ELSE ThreadAt("idle")]
    /\ UNCHANGED <<subsystem, uvars, green, log, qvars, avars, gvars>>

\* steal_work(worker_id): the victim is drawn from all the workers
WorkerSteal(w) ==
    /\ threads[w].pc = "steal"
    /\ \E victim_id \in Workers :
          /\ scheduler' = steal_work(scheduler, w, victim_id)
          /\ log' = [log EXCEPT !.steals = Append(@,
                         [thief |-> w, victim |-> victim_id,
                          moved |-> scheduler'.queue_size[w] - scheduler.queue_size[w]])]
    /\ threads' = [threads EXCEPT ![w] = ThreadAt("idle")]
    /\ UNCHANGED <<subsystem, uvars, green, qvars, avars, gvars>>

\* worker_loop: running is false at the top of the loop; the thread ends
WorkerExit(w) ==
    /\ threads[w].pc = "idle"
    /\ ~scheduler.running[w]
    /\ threads' = [threads EXCEPT ![w] = ThreadAt("exited")]
    /\ UNCHANGED <<subsystem, uvars, green, scheduler, log, qvars, avars, gvars>>

NextCallers ==
    \/ \E t \in Callers : SpawnFetchAdd(t)
    \/ \E t \in Callers : SpawnRegister(t)
    \/ \E t \in Callers : SpawnSchedule(t)
    \/ \E t \in Callers, to \in Pids : SendLookup(t, to)
    \/ \E t \in Callers : SendHeapRead(t)
    \/ \E t \in Callers : SendHeapWrite(t)
    \/ \E t \in Callers : SendEnqueue(t)
    \/ \E t \in Callers : SendWake(t)
    \/ \E t \in Callers, pid \in Pids : KillActor(t, pid)
    \/ \E t \in Callers : KillFinish(t)

NextQuantum ==
    \/ \E w \in Workers : WorkerExecuteQuantum(w)
    \/ \E w \in Workers : BehaviorThrow(w)
    \/ \E w \in Workers : WorkerCrashFinish(w)
    \/ \E w \in Workers : BehaviorReturn(w)
    \/ \E w \in Workers : WorkerQuantumStore(w)

NextSched ==
    \/ NextCallers
    \/ NextQuantum
    \/ \E w \in Workers : WorkerGetNext(w)
    \/ \E w \in Workers : BehaviorReceive(w)
    \/ \E w \in Workers : WorkerAfterQuantum(w)

SpecSched == InitSched /\ [][NextSched]_vars

----------------------------------------------------------------------------
(* GreenThread and GreenThreadScheduler (include/runtime/green_threads.h,  *)
(* src/runtime/green_threads.cpp), after start().  The fields of a green   *)
(* thread are plain (not atomic); a read that overlaps a write is taken to *)
(* see the value before or after it.                                       *)

\* GreenThread(id, heap_size)
GreenThread(id, heap_size) ==
    [thread_id    |-> id,
     state        |-> "CREATED",
     private_heap |-> ActorHeap(heap_size),
     has_crashed  |-> FALSE,
     crash_reason |-> "",
     collections_count |-> 0,
     mailbox      |-> LockFreeQueue]

\* set_behavior(fn, args)
set_behavior(g) == [g EXCEPT !.state = "READY"]

\* GreenThread::is_alive()
green_is_alive(g) == ~g.has_crashed /\ g.state # "TERMINATED"

\* has_messages()
has_messages(g) == ~is_empty(g.mailbox)

\* run_gc(): mark_and_sweep is private_heap_->collect_garbage()
run_gc(g) ==
    [g EXCEPT !.private_heap = collect_garbage(@), !.collections_count = @ + 1]

\* auto_gc_check(): run_gc() when more than 80% of the heap is used
auto_gc_check(g) ==
    IF 10 * g.private_heap.used_size > 8 * g.private_heap.total_size THEN run_gc(g) ELSE g

\* GreenThread::send_message(msg): [thread, ret]
green_send_message(g, size, from, id) ==
    IF g.has_crashed \/ g.state = "TERMINATED"
    THEN [thread |-> g, ret |-> FALSE]
    ELSE LET r1 == allocate(g.private_heap, size)
             g1 == IF r1.ptr = nullptr THEN run_gc([g EXCEPT !.private_heap = r1.heap])
                   ELSE [g EXCEPT !.private_heap = r1.heap]
             r2 == IF r1.ptr = nullptr THEN allocate(g1.private_heap, size) ELSE r1
         IN  IF r2.ptr = nullptr
             THEN [thread |-> [g1 EXCEPT !.private_heap = r2.heap], ret |-> FALSE]
             ELSE LET q1 == TailExchange(g.mailbox, Message(r2.ptr, size, from, id))
                  IN  [thread |-> [g1 EXCEPT
                                     !.private_heap = [r2.heap EXCEPT
                                                         !.mem = Fill(@, r2.ptr, size, 1)],
                                     !.mailbox = LinkNext(q1, g.mailbox.tail, Len(q1.nodes)),
                                     !.state = IF @ = "BLOCKED" THEN "READY" ELSE @],
                       ret    |-> TRUE]

\* receive_message(): the thread afterwards (the Message* goes to the
\* behavior)
receive_message(g) ==
    LET d == try_dequeue(g.mailbox)
        r == allocate(g.private_heap, SizeofMessage)
    IN  IF d.has_value /\ r.ptr # nullptr
        THEN [g EXCEPT !.mailbox = d.q,
                       !.private_heap = [r.heap EXCEPT
                                           !.mem = Fill(@, r.ptr, SizeofMessage, StructWord)]]
        ELSE [g EXCEPT !.mailbox = d.q,
                       !.private_heap = IF d.has_value THEN r.heap ELSE @,
                       !.state = IF @ = "RUNNING" THEN "BLOCKED" ELSE @]

\* crash(reason)
crash(g, reason) ==
    [g EXCEPT !.has_crashed = TRUE, !.crash_reason = reason, !.state = "TERMINATED"]

\* GreenThreadScheduler(num_workers, policy), then start()
GreenThreadScheduler ==
    [next_thread_id_ |-> 0,
     green_threads_  |-> <<>>,      \* a function from thread ids to GreenThread
     ready_queue     |-> [w \in Workers |-> <<>>],
     blocked_queue   |-> [w \in Workers |-> <<>>],
     threads_executed |-> [w \in Workers |-> 0],
     total_messages_sent_ |-> 0,
     total_green_threads_created_ |-> 0]

SetThread(s, id, g) == [s EXCEPT !.green_threads_[id] = g]

\* GreenThreadScheduler::choose_worker()
green_choose_worker(s) ==
    CHOOSE w \in Workers :
        \A v \in Workers : \/ Len(s.ready_queue[w]) < Len(s.ready_queue[v])
                           \/ Len(s.ready_queue[w]) = Len(s.ready_queue[v]) /\ w <= v

\* schedule_thread(thread, preferred_worker)
schedule_thread(s, id, preferred_worker) ==
    LET w == IF preferred_worker >= NumWorkers THEN 0 ELSE preferred_worker
    IN  IF s.green_threads_[id].state = "READY"
        THEN [s EXCEPT !.ready_queue[w] = Append(@, id)]
        ELSE IF s.green_threads_[id].state = "BLOCKED"
        THEN [s EXCEPT !.blocked_queue[w] = Append(@, id)]
        ELSE s

\* the ids of q that lie in keep, in q's order: the erase/push loop of
\* move_blocked_to_ready
SelectIds(q, keep) ==
    LET F[i \in 0..Len(q)] ==
            IF i = 0 THEN <<>>
            ELSE IF q[i] \in keep THEN Append(F[i - 1], q[i]) ELSE F[i - 1]
    IN  F[Len(q)]

\* move_blocked_to_ready(worker_id)
move_blocked_to_ready(s, w) ==
    LET Woken   == {id \in DOMAIN s.green_threads_ :
                       has_messages(s.green_threads_[id])}
        Blocked == (DOMAIN s.green_threads_) \ Woken
        moved   == SelectIds(s.blocked_queue[w], Woken)
    IN  [s EXCEPT !.ready_queue[w] = @ \o moved,
                  !.blocked_queue[w] = SelectIds(@, Blocked),
                  !.green_threads_ = [id \in DOMAIN @ |->
                                         IF \E i \in 1..Len(moved) : moved[i] = id
                                         THEN [@[id] EXCEPT !.state = "READY"]
                                         ELSE @[id]]]

----------------------------------------------------------------------------
(* The green-thread specification: the same threads, on a                  *)
(* GreenThreadScheduler.  A behavior may call receive_message() of its own *)
(* green thread.                                                           *)

InitGreen ==
    /\ subsystem = "green"
    /\ SupervisorIdle
    /\ MutexIdle
    /\ YieldIdle
    /\ green = GreenThreadScheduler
    /\ scheduler = <<>>
    /\ InitThreads
    /\ QueueIdle
    /\ ActorIdle
    /\ GcIdle

GreenIds == DOMAIN green.green_threads_

\* GreenThreadScheduler::spawn, taken as one step
GreenSpawn(t) ==
    /\ CanCall(t)
    /\ green.next_thread_id_ < MaxSpawns
    /\ LET id == green.next_thread_id_
           s1 == [green EXCEPT
                    !.next_thread_id_ = fetch_add(@),
                    !.green_threads_ = [i \in (DOMAIN @) \cup {id} |->
                                           IF i = id
                                           THEN set_behavior(GreenThread(id, HeapSize))
                                           ELSE @[i]],
                    !.total_green_threads_created_ = @ + 1]
       IN  /\ green' = schedule_thread(s1, id, green_choose_worker(s1))
           /\ log' = [Calls(Returns(t, "spawn", id, TRUE), t, "spawn", NoPid)
                         EXCEPT !.taken = Append(@, id), !.returned = Append(@, id)]
    /\ UNCHANGED <<subsystem, uvars, scheduler, threads, qvars, avars, gvars>>

\* terminate(thread_id)
GreenTerminate(t, id) ==
    /\ CanCall(t)
    /\ green' = IF id \in GreenIds
                THEN SetThread(green, id, [green.green_threads_[id] EXCEPT
                                              !.state = "TERMINATED"])
                ELSE green
    /\ log' = [Calls(Returns(t, "terminate", id, id \in GreenIds), t, "terminate", id)
                  EXCEPT !.died = IF id \in GreenIds THEN @ \cup {id} ELSE @]
    /\ UNCHANGED <<subsystem, uvars, scheduler, threads, qvars, avars, gvars>>

\* GreenThreadScheduler::send_message: the lookup under threads_mutex_;
\* false when the id is not registered
GreenSendLookup(t, to) ==
    /\ CanCall(t)
    /\ IF to \notin GreenIds
       THEN /\ log' = Calls(Returns(t, "send_message", to, FALSE), t, "send_message", to)
            /\ UNCHANGED threads
       ELSE /\ log' = Calls(log, t, "send_message", to)
            /\ threads' = [threads EXCEPT ![t] = [ThreadAt("gsend_check") EXCEPT !.pid = to]]
    /\ UNCHANGED <<subsystem, uvars, scheduler, green, qvars, avars, gvars>>

\* GreenThreadScheduler::send_message: false when !to_thread->is_alive()
GreenSendCheck(t) ==
    /\ threads[t].pc = "gsend_check"
    /\ IF ~green_is_alive(green.green_threads_[threads[t].pid])
       THEN /\ log' = Returns(t, "send_message", threads[t].pid, FALSE)
            /\ threads' = [threads EXCEPT ![t] = ThreadAt("ready")]
       ELSE /\ threads' = [threads EXCEPT ![t].pc = "gsend_deliver"]
            /\ UNCHANGED log
    /\ UNCHANGED <<subsystem, uvars, scheduler, green, qvars, avars, gvars>>

\* GreenThreadScheduler::send_message: to_thread->send_message(msg), and
\* when it was sent total_messages_sent_.fetch_add(1) and the notify_one
\* of every worker
GreenSendDeliver(t) ==
    /\ threads[t].pc = "gsend_deliver"
    /\ LET to == threads[t].pid
           r  == green_send_message(green.green_threads_[to], PayloadSize, ExternalPid,
                                    log.sent + 1)
       IN  /\ green' = [SetThread(green, to, r.thread) EXCEPT
                           !.total_messages_sent_ = IF r.ret THEN @ + 1 ELSE @]
           /\ log' = [Returns(t, "send_message", to, r.ret)
                         EXCEPT !.sent = IF r.ret THEN @ + 1 ELSE @]
    /\ threads' = [threads EXCEPT ![t] = ThreadAt("ready")]
    /\ UNCHANGED <<subsystem, uvars, scheduler, qvars, avars, gvars>>

\* worker_loop: get_next_ready_thread(worker_id) found a thread
GreenGetNext(w) ==
    /\ threads[w].pc = "idle"
    /\ green.ready_queue[w] # <<>>
    /\ \A v \in Workers : green.threads_executed[v] < MaxQuanta
    /\ green' = [green EXCEPT !.ready_queue[w] = Tail(@)]
    /\ threads' = [threads EXCEPT ![w] =
                      [ThreadAt("gexecute") EXCEPT !.pid = Head(green.ready_queue[w])]]
    /\ UNCHANGED <<subsystem, uvars, scheduler, log, qvars, avars, gvars>>

\* worker_loop with an empty ready queue: try_steal_work(worker_id) takes
\* the last thread of a victim with more than one, then
\* move_blocked_to_ready
GreenSteal(w) ==
    /\ threads[w].pc = "idle"
    /\ green.ready_queue[w] = <<>>
    /\ \E i \in Workers :
          /\ i # w
          /\ Len(green.ready_queue[i]) > 1
          /\ \A j \in Workers : (j # w /\ Len(green.ready_queue[j]) > 1) => i <= j
          /\ LET victim == green.ready_queue[i]
                 stolen == victim[Len(victim)]
             IN  green' = move_blocked_to_ready(
                              [green EXCEPT
                                  !.ready_queue[i] = SubSeq(victim, 1, Len(victim) - 1),
                                  !.ready_queue[w] = Append(@, stolen)], w)
    /\ UNCHANGED <<subsystem, uvars, scheduler, threads, log, qvars, avars, gvars>>

\* execute_quantum: false unless the state is READY or RUNNING
GreenExecuteCheck(w) ==
    /\ threads[w].pc = "gexecute"
    /\ threads' = [threads EXCEPT
                      ![w].pc = IF green.green_threads_[threads[w].pid].state
                                      \in {"READY", "RUNNING"}
                                THEN "gstore_running" ELSE "gafter"]
    /\ UNCHANGED <<subsystem, uvars, scheduler, green, log, qvars, avars, gvars>>

\* execute_quantum: state_ = RUNNING, and the behavior is entered
GreenStoreRunning(w) ==
    /\ threads[w].pc = "gstore_running"
    /\ green' = SetThread(green, threads[w].pid,
                    [green.green_threads_[threads[w].pid] EXCEPT !.state = "RUNNING"])
    /\ threads' = [threads EXCEPT ![w].pc = "gbehavior"]
    /\ UNCHANGED <<subsystem, uvars, scheduler, log, qvars, avars, gvars>>

\* the behavior calls receive_message() of its green thread
GreenBehaviorReceive(w) ==
    /\ threads[w].pc = "gbehavior"
    /\ LET g == receive_message(green.green_threads_[threads[w].pid])
       IN  /\ g # green.green_threads_[threads[w].pid]
           /\ green' = SetThread(green, threads[w].pid, g)
    /\ UNCHANGED <<subsystem, uvars, scheduler, threads, log, qvars, avars, gvars>>

\* the behavior returns: auto_gc_check(); RUNNING becomes READY
GreenBehaviorReturn(w) ==
    /\ threads[w].pc = "gbehavior"
    /\ LET g == auto_gc_check(green.green_threads_[threads[w].pid])
       IN  green' = SetThread(green, threads[w].pid,
                        [g EXCEPT !.state = IF @ = "RUNNING" THEN "READY" ELSE @])
    /\ threads' = [threads EXCEPT ![w].pc = "gafter"]
    /\ UNCHANGED <<subsystem, uvars, scheduler, log, qvars, avars, gvars>>

\* the behavior throws: execute_quantum catches it and calls crash()
GreenBehaviorThrow(w) ==
    /\ threads[w].pc = "gbehavior"
    /\ green' = SetThread(green, threads[w].pid,
                    crash(green.green_threads_[threads[w].pid], "Exception: error"))
    /\ threads' = [threads EXCEPT ![w].pc = "gafter"]
    /\ log' = [log EXCEPT !.died = @ \cup {threads[w].pid}]
    /\ UNCHANGED <<subsystem, uvars, scheduler, qvars, avars, gvars>>

\* worker_loop after execute_quantum: the counters, schedule_thread when
\* the state is READY, move_blocked_to_ready
GreenAfterQuantum(w) ==
    /\ threads[w].pc = "gafter"
    /\ LET s1 == [green EXCEPT !.threads_executed[w] = @ + 1]
           s2 == IF s1.green_threads_[threads[w].pid].state = "READY"
                 THEN schedule_thread(s1, threads[w].pid, w)
                 ELSE s1
       IN  green' = move_blocked_to_ready(s2, w)
    /\ threads' = [threads EXCEPT ![w] = ThreadAt("idle")]
    /\ UNCHANGED <<subsystem, uvars, scheduler, log, qvars, avars, gvars>>

NextGreen ==
    \/ \E t \in Callers : GreenSpawn(t)
    \/ \E t \in Callers, id \in Pids : GreenTerminate(t, id)
    \/ \E t \in Callers, to \in Pids : GreenSendLookup(t, to)
    \/ \E t \in Callers : GreenSendCheck(t)
    \/ \E t \in Callers : GreenSendDeliver(t)
    \/ \E w \in Workers : GreenGetNext(w)
    \/ \E w \in Workers : GreenSteal(w)
    \/ \E w \in Workers : GreenExecuteCheck(w)
    \/ \E w \in Workers : GreenStoreRunning(w)
    \/ \E w \in Workers : GreenBehaviorReceive(w)
    \/ \E w \in Workers : GreenBehaviorReturn(w)
    \/ \E w \in Workers : GreenBehaviorThrow(w)
    \/ \E w \in Workers : GreenAfterQuantum(w)

SpecGreen == InitGreen /\ [][NextGreen]_vars

\* both schedulers
InitRuntime == InitSched \/ InitGreen

NextRuntime ==
    \/ subsystem = "scheduler" /\ NextSched
    \/ subsystem = "green" /\ NextGreen

SpecRuntime == InitRuntime /\ [][NextRuntime]_vars

----------------------------------------------------------------------------
(* Where the actors and threads of the scheduler specification are         *)

Registered == DOMAIN scheduler.actors_

\* the threads inside an operation of p's heap
HeapUsers(p) ==
    {t \in DOMAIN threads : threads[t].pc = "send_copy" /\ threads[t].pid = p}

\* the workers inside execute_quantum of p
Executing(p) ==
    {w \in Workers : /\ threads[w].pc \in {"behavior", "quantum_store", "crash_write"}
                     /\ threads[w].pid = p}

Held(p)    == \E w \in Workers : threads[w].pc # "idle" /\ threads[w].pid = p
InSpawn(p) == \E t \in Callers : threads[t].pc = "spawn_schedule" /\ threads[t].pid = p
InSend(p)  == \E t \in Callers :
                 /\ threads[t].pc \in {"send_alloc", "send_copy", "send_enqueue", "send_wake"}
                 /\ threads[t].pid = p
QueuedOn(s, p) == \E w \in Workers : \E i \in 1..Len(s.run_queue[w]) : s.run_queue[w][i] = p

----------------------------------------------------------------------------
(* C3: an actor's heap is read and written only by the worker thread that  *)
(* is executing that actor, and never by two threads at once, also while   *)
(* messages are sent to it.                                                *)

C3_HeapConfinement ==
    \A p \in Registered :
        /\ HeapUsers(p) \subseteq Executing(p)
        /\ Cardinality(HeapUsers(p)) <= 1

----------------------------------------------------------------------------
(* C4: once an actor's state has been DEAD its state stays DEAD and        *)
(* is_alive() stays false, whatever runs afterwards.                       *)

C4_DeadIsTerminal ==
    \A p \in log.died :
        /\ scheduler.actors_[p].state = "DEAD"
        /\ ~is_alive(scheduler.actors_[p])

----------------------------------------------------------------------------
(* C5: when the behavior of actor p throws, execute_quantum's catch leaves *)
(* p DEAD with the thrown reason and the crash time recorded and returns   *)
(* false; every other actor and every ready queue is as it was; the worker *)
(* then goes back to the top of its loop without putting p on a queue.     *)

C5_Caught(w) ==
    LET p == threads[w].pid
    IN  /\ scheduler'.actors_[p].state = "DEAD"
        /\ scheduler'.actors_[p].exit_reason =
              [error_msg |-> "error", crash_time |-> log'.clock]
        /\ threads'[w].flag = FALSE
        /\ \A q \in Registered \ {p} : scheduler'.actors_[q] = scheduler.actors_[q]
        /\ scheduler'.run_queue = scheduler.run_queue
        /\ ~QueuedOn(scheduler', p)

C5_GoesOn(w) ==
    /\ threads'[w].pc = "idle"
    /\ ~QueuedOn(scheduler', threads[w].pid)
    /\ \A q \in Registered : scheduler'.actors_[q] = scheduler.actors_[q]

C5_CrashIsolation ==
    [][\A w \in Workers :
          /\ (threads[w].pc = "crash_write" /\ threads'[w].pc # "crash_write")
                => C5_Caught(w)
          /\ (threads[w].pc = "after" /\ ~threads[w].flag /\ threads'[w].pc # "after")
                => C5_GoesOn(w)]_vars

----------------------------------------------------------------------------
(* C6: an actor that parked itself and was then sent a message is RUNNABLE *)
(* and back on some worker's ready queue once the send has returned        *)
(* (unless a worker holds it or its spawn has not queued it yet).          *)

C6_WokenIsQueued ==
    \A p \in Registered :
        (/\ scheduler.actors_[p].state = "RUNNABLE"
         /\ ~is_empty(scheduler.actors_[p].mailbox)
         /\ ~Held(p) /\ ~InSpawn(p) /\ ~InSend(p))
            => QueuedOn(scheduler, p)

----------------------------------------------------------------------------
(* C7: under any interleaving of spawn calls the pids are taken as 0, 1,   *)
(* 2, ... in the order the calls take their number, no pid is returned     *)
(* twice, and the registry maps every returned pid to one actor, which has *)
(* that pid.                                                               *)

C7_PidsUnique ==
    /\ \A i \in 1..Len(log.taken) : log.taken[i] = i - 1
    /\ \A i, j \in 1..Len(log.returned) : i # j => log.returned[i] # log.returned[j]
    /\ \A i \in 1..Len(log.returned) :
          /\ log.returned[i] \in Registered
          /\ scheduler.actors_[log.returned[i]].pid = log.returned[i]
    /\ scheduler.total_actors_spawned_ <= Len(log.taken)

\* two spawn calls that overlapped: the one that took its number second
\* returned first
C7_Witness ==
    /\ subsystem = "scheduler"
    /\ log.returned = <<1, 0>>

----------------------------------------------------------------------------
(* C8: send_message to a pid that is not registered, or whose actor is     *)
(* found not alive when the call checks it, returns false and changes      *)
(* nothing in the scheduler or in any actor (no enqueue, no allocation,    *)
(* sent-message counter as it was); kill_actor on a pid that is not        *)
(* registered changes no state.  The same for                              *)
(* GreenThreadScheduler::send_message, whose checks are the lookup, the    *)
(* is_alive() test and the test at the top of GreenThread::send_message.   *)

Starts(op, t, pid) ==
    /\ log'.calls = log.calls + 1
    /\ log'.calling = [op |-> op, thread |-> t, pid |-> pid]

Failed(t, pid) ==
    log'.last = [op |-> "send_message", thread |-> t, pid |-> pid, ret |-> FALSE]

C8_SchedStep ==
    \A t \in Callers, pid \in Pids :
        /\ (/\ Starts("send_message", t, pid)
            /\ \/ pid \notin Registered
               \/ scheduler.actors_[pid].state \in {"DEAD", "EXITING"})
              => /\ Failed(t, pid)
                 /\ threads' = threads
                 /\ scheduler' = scheduler
        /\ (Starts("kill_actor", t, pid) /\ pid \notin Registered)
              => /\ threads' = threads
                 /\ scheduler' = scheduler

C8_GreenStep ==
    \A t \in Callers, pid \in Pids :
        /\ (Starts("send_message", t, pid) /\ pid \notin GreenIds)
              => /\ Failed(t, pid)
                 /\ threads' = threads
                 /\ green' = green
        /\ (/\ threads[t].pc \in {"gsend_check", "gsend_deliver"}
            /\ threads[t].pid = pid
            /\ threads'[t].pc # threads[t].pc
            /\ \/ green.green_threads_[pid].has_crashed
               \/ green.green_threads_[pid].state = "TERMINATED")
              => /\ Failed(t, pid)
                 /\ threads'[t].pc = "ready"
                 /\ green' = green

C8_StructuralErrors ==
    [][IF subsystem = "green" THEN C8_GreenStep ELSE C8_SchedStep]_vars

\* a send_message to a registered actor that is DEAD has returned false
C8_Witness ==
    /\ subsystem = "scheduler"
    /\ log.last.op = "send_message"
    /\ ~log.last.ret
    /\ log.last.pid \in Registered
    /\ scheduler.actors_[log.last.pid].state = "DEAD"
    /\ log.calling = [op |-> "send_message", thread |-> log.last.thread,
                      pid |-> log.last.pid]

----------------------------------------------------------------------------
(* The memory specification: either the collector with its mutator or the  *)
(* actor with its bump heap.                                               *)

InitMem == InitGc \/ InitActor

NextMem ==
    \/ subsystem = "gc" /\ NextGc
    \/ subsystem = "actor" /\ NextActor

SpecMem == InitMem /\ [][NextMem]_vars

----------------------------------------------------------------------------
(* C9: ActorGC::allocate tries the young generation first; when that fails *)
(* it runs collect_young() once and tries the young generation again; when *)
(* that fails too it goes to allocate_old, which runs collect_full() at    *)
(* most once; it returns null only when the request fits in neither        *)
(* generation after those collections.  So a request that fits the young   *)
(* generation's size always succeeds, after one automatic collect_young()  *)
(* when the generation was full.                                           *)

C9_Step ==
    LET size        == gclast'.size
        ptr         == gclast'.ptr
        total       == GCHeaderSize + Align16(size)
        fits_young  == gc.young.alloc_ptr + total <= gc.young.end
        young_runs  == gc'.stats.young_collections - gc.stats.young_collections
        full_runs   == gc'.stats.old_collections - gc.stats.old_collections
    IN  /\ fits_young =>
              /\ ptr = gc.young.alloc_ptr + GCHeaderSize
              /\ young_runs = 0 /\ full_runs = 0
        /\ ~fits_young => young_runs = 1
        /\ (~fits_young /\ total <= YOUNG_GEN_SIZE) =>
              /\ ptr = gc.young.start + GCHeaderSize
              /\ full_runs = 0
        /\ (~fits_young /\ total > YOUNG_GEN_SIZE) =>
              /\ ptr = nullptr \/ contains(gc'.old, ptr)
              /\ full_runs <= 1
        /\ ptr = nullptr =>
              /\ total > YOUNG_GEN_SIZE
              /\ full_runs = 1
              /\ gc'.old.alloc_ptr + total > gc'.old.end

C9_AllocationFallback ==
    [][(gccalls' = gccalls + 1 /\ gclast'.op = "allocate") => C9_Step]_vars

\* the third small allocation found the young generation full, which ran
\* collect_young() and nothing else, and got the start of the young generation
C9_Witness ==
    /\ subsystem = "gc"
    /\ gclast.op = "allocate"
    /\ gc.stats.objects_allocated = 3
    /\ gc.stats.young_collections = 1
    /\ gc.stats.total_collections = 1
    /\ gclast.ptr = YoungStart + GCHeaderSize

----------------------------------------------------------------------------
(* C10: after any sequence of operations each generation's used bytes is   *)
(* at most its size and equals alloc_ptr - start; the actor heap's         *)
(* used() is at most its total().                                          *)

C10_BoundedRegions ==
    /\ subsystem = "gc" =>
          /\ gc.young.used <= gc.young.size
          /\ gc.young.used = gc.young.alloc_ptr - gc.young.start
          /\ gc.old.used <= gc.old.size
          /\ gc.old.used = gc.old.alloc_ptr - gc.old.start
    /\ subsystem = "actor" =>
          actor.heap.used_size <= actor.heap.total_size

\* a promoted object and a young one are in place after collections ran
C10_Witness ==
    /\ subsystem = "gc"
    /\ gc.stats.total_collections >= 1
    /\ gc.old.used > 0
    /\ gc.young.used > 0

----------------------------------------------------------------------------
(* Supervisor (include/runtime/supervisor.h).  The header declares the     *)
(* class; its member functions are defined by section 4.5 of the           *)
(* specification: handle_child_exit looks the child up by pid, asks        *)
(* should_restart, escalates when restart_intensity_exceeded() and         *)
(* otherwise applies the restart strategy.  Time is in seconds.            *)

NumChildren   == 2     \* children a supervisor is given
MaxRestartsN  == 2     \* max_restarts of the supervisor under test
MaxTimeWindow == 2     \* max_time of the supervisor under test, in seconds
MaxClock      == 3     \* seconds the clock runs for
MaxExits      == 3     \* child exits delivered to the supervisor

ChildIds   == 1..NumChildren
Strategies == {"ONE_FOR_ONE", "ONE_FOR_ALL", "REST_FOR_ONE"}
Policies   == {"permanent", "transient", "temporary"}
Reasons    == {"normal", "crash"}

\* ChildState for a child started as pid at time now
ChildState(pid, policy, now) ==
    [pid |-> pid, policy |-> policy, restart_count |-> 0,
     last_restart |-> now, is_alive |-> TRUE]

\* Supervisor(sched, pid, strategy, max_restarts, max_time), with the
\* Scheduler's pid counter, the clock, and what happened so far
Supervisor(strategy, max_restarts, max_time) ==
    [strategy_ |-> strategy, max_restarts_ |-> max_restarts, max_time_ |-> max_time,
     children_ |-> <<>>, child_order_ |-> <<>>, restart_times_ |-> <<>>,
     next_pid_ |-> 0, failed |-> FALSE,
     now |-> 0, exits |-> 0, issued |-> {}, restarted_at |-> <<>>,
     last |-> [op |-> "none", id |-> 0, reason |-> "none", outcome |-> "none"]]

\* scheduler_->spawn(spec.start_func) for child id: the child gets the next pid
SpawnChild(s, id) ==
    [s EXCEPT !.children_[id] = [@ EXCEPT !.pid = s.next_pid_, !.is_alive = TRUE],
              !.next_pid_ = fetch_add(@),
              !.issued = @ \cup {s.next_pid_}]

\* add_child(spec) followed by start_child(spec.id)
add_child(s, id, policy) ==
    SpawnChild([s EXCEPT !.children_ = [c \in (DOMAIN @) \cup {id} |->
                                           IF c = id THEN ChildState(NoPid, policy, s.now)
                                           ELSE @[c]],
                         !.child_order_ = Append(@, id)], id)

\* should_restart(child, reason)
should_restart(child, reason) ==
    CASE child.policy = "permanent" -> TRUE
      [] child.policy = "transient" -> reason # "normal"
      [] OTHER                      -> FALSE

\* cleanup_restart_records() that drops nothing
keep_restart_records(s) == s

\* cleanup_restart_records(): the restarts of the trailing max_time window
cleanup_restart_records(s) ==
    [s EXCEPT !.restart_times_ = SelectSeq(@, LAMBDA t : s.now - t <= s.max_time_)]

\* record_restart()
record_restart(s) ==
    [s EXCEPT !.restart_times_ = Append(@, s.now)]

\* restart_intensity_exceeded(): more than max_restarts restarts in the window
restart_intensity_exceeded(s) ==
    Len(cleanup_restart_records(s).restart_times_) > s.max_restarts_

\* stop_child(id)
stop_child(s, id) == [s EXCEPT !.children_[id].is_alive = FALSE]

\* do_restart_child(id): a new actor for the child, under a new pid
do_restart_child(s, id) ==
    SpawnChild([s EXCEPT !.children_[id].restart_count = @ + 1,
                         !.children_[id].last_restart = s.now], id)

\* the children of ids stopped, then restarted, both in the order of ids
RECURSIVE StopAll(_, _)
StopAll(s, ids) ==
    IF ids = <<>> THEN s ELSE StopAll(stop_child(s, Head(ids)), Tail(ids))

RECURSIVE RestartAll(_, _)
RestartAll(s, ids) ==
    IF ids = <<>> THEN s ELSE RestartAll(do_restart_child(s, Head(ids)), Tail(ids))

\* restart_one_for_one(failed_id)
restart_one_for_one(s, failed_id) == do_restart_child(s, failed_id)

\* restart_one_for_one in the place of restart_one_for_all
restart_only_failed(s, failed_id) == restart_one_for_one(s, failed_id)

\* restart_one_for_all()
restart_one_for_all(s, failed_id) ==
    RestartAll(StopAll(s, s.child_order_), s.child_order_)

\* restart_rest_for_one(failed_id): the failed child and those started after it
restart_rest_for_one(s, failed_id) ==
    LET at   == CHOOSE i \in 1..Len(s.child_order_) : s.child_order_[i] = failed_id
        rest == SubSeq(s.child_order_, at, Len(s.child_order_))
    IN  RestartAll(StopAll(s, rest), rest)

\* terminate_all_children()
terminate_all_children(s) == StopAll(s, s.child_order_)

\* handle_child_exit(child_pid, reason)
handle_child_exit(s, child_pid, reason) ==
    LET ids == {c \in DOMAIN s.children_ : s.children_[c].pid = child_pid}
    IN  IF ids = {} \/ s.failed THEN s
        ELSE
        LET id      == CHOOSE c \in ids : TRUE
            exited  == stop_child(s, id)
            counted == record_restart(cleanup_restart_records(exited))
            Done(t, outcome) ==
                [t EXCEPT !.last = [op |-> "exit", id |-> id, reason |-> reason,
                                     outcome |-> outcome],
                          !.restarted_at = IF outcome = "restarted"
                                           THEN Append(@, s.now) ELSE @]
        IN  IF ~should_restart(s.children_[id], reason)
            THEN Done(exited, "ignored")
            ELSE IF restart_intensity_exceeded(counted)
            THEN Done([terminate_all_children(counted) EXCEPT !.failed = TRUE],
                      "escalated")
            ELSE Done(CASE s.strategy_ = "ONE_FOR_ONE" ->
                               restart_one_for_one(counted, id)
                        [] s.strategy_ = "ONE_FOR_ALL" ->
                               restart_one_for_all(counted, id)
                        [] OTHER ->
                               restart_rest_for_one(counted, id),
                      "restarted")

\* The supervisor specification: a supervisor is given children, the clock
\* advances, and children exit, normally or by a crash.
InitSup ==
    /\ subsystem = "supervisor"
    /\ \E strategy \in Strategies :
          supervisor = Supervisor(strategy, MaxRestartsN, MaxTimeWindow)
    /\ YieldIdle
    /\ MutexIdle
    /\ QueueIdle
    /\ ActorIdle
    /\ GcIdle
    /\ SchedulerIdle

\* children are named by the order they are added in
SupAddChild(id, policy) ==
    /\ ~supervisor.failed
    /\ id = Len(supervisor.child_order_) + 1
    /\ supervisor' = [add_child(supervisor, id, policy) EXCEPT
                         !.last = [op |-> "add", id |-> id, reason |-> "none",
                                   outcome |-> "none"]]
    /\ UNCHANGED <<subsystem, mutexes, yielded, qvars, avars, gvars, svars>>

\* the actor of child id dies and the supervisor is told
SupChildExit(id, reason) ==
    /\ supervisor.exits < MaxExits
    /\ id \in DOMAIN supervisor.children_
    /\ supervisor.children_[id].is_alive
    /\ supervisor' = [handle_child_exit(supervisor, supervisor.children_[id].pid, reason)
                         EXCEPT !.exits = @ + 1]
    /\ UNCHANGED <<subsystem, mutexes, yielded, qvars, avars, gvars, svars>>

SupTick ==
    /\ supervisor.now < MaxClock
    /\ supervisor' = [supervisor EXCEPT !.now = @ + 1,
                         !.last = [op |-> "tick", id |-> 0, reason |-> "none",
                                   outcome |-> "none"]]
    /\ UNCHANGED <<subsystem, mutexes, yielded, qvars, avars, gvars, svars>>

NextSup ==
    \/ \E id \in ChildIds, policy \in Policies : SupAddChild(id, policy)
    \/ \E id \in ChildIds, reason \in Reasons : SupChildExit(id, reason)
    \/ SupTick

SpecSup == InitSup /\ [][NextSup]_vars

\* the restarts made during the max_time seconds up to now
RestartsInWindow(s) ==
    Cardinality({i \in 1..Len(s.restarted_at) : s.now - s.restarted_at[i] <= s.max_time_})

\* the supervisor has just been told of an exit of child id that its
\* restart policy says to restart
ExitToRestart(id) ==
    /\ supervisor'.exits = supervisor.exits + 1
    /\ supervisor'.last.id = id
    /\ \/ supervisor.children_[id].policy = "permanent"
       \/ supervisor.children_[id].policy = "transient"
              /\ supervisor'.last.reason = "crash"

\* C14: a supervisor restarts a crashing child while fewer than max_restarts
\* restarts lie inside the trailing max_time window, and escalates instead
\* of restarting on the crash that would exceed max_restarts inside it;
\* restarts older than max_time do not count.
C14_RestartIntensity ==
    [][\A id \in DOMAIN supervisor.children_ :
          ExitToRestart(id) =>
             IF RestartsInWindow(supervisor) < supervisor.max_restarts_
             THEN /\ supervisor'.last.outcome = "restarted"
                  /\ ~supervisor'.failed
                  /\ supervisor'.children_[id].is_alive
                  /\ supervisor'.children_[id].pid # supervisor.children_[id].pid
             ELSE /\ supervisor'.last.outcome = "escalated"
                  /\ supervisor'.failed
                  /\ ~supervisor'.children_[id].is_alive
                  /\ supervisor'.children_[id].pid = supervisor.children_[id].pid]_vars

\* a supervisor that restarted max_restarts times has escalated
C14_Witness ==
    /\ subsystem = "supervisor"
    /\ supervisor.last.outcome = "escalated"
    /\ Len(supervisor.restarted_at) = MaxRestartsN

\* C15: when a child of a ONE_FOR_ALL supervisor exits and is restarted,
\* every child of the supervisor is stopped and restarted, each under a pid
\* that no child was given before, and no two under the same pid.
C15_OneForAll ==
    [][\A id \in DOMAIN supervisor.children_ :
          (/\ ExitToRestart(id)
           /\ supervisor.strategy_ = "ONE_FOR_ALL"
           /\ supervisor'.last.outcome = "restarted") =>
             /\ DOMAIN supervisor'.children_ = DOMAIN supervisor.children_
             /\ \A c \in DOMAIN supervisor.children_ :
                   /\ supervisor'.children_[c].is_alive
                   /\ supervisor'.children_[c].pid \notin supervisor.issued
                   /\ supervisor'.children_[c].restart_count
                          = supervisor.children_[c].restart_count + 1
                   /\ \A d \in DOMAIN supervisor.children_ :
                         c # d => supervisor'.children_[c].pid
                                      # supervisor'.children_[d].pid]_vars

\* a ONE_FOR_ALL supervisor of two children has restarted both
C15_Witness ==
    /\ subsystem = "supervisor"
    /\ supervisor.strategy_ = "ONE_FOR_ALL"
    /\ supervisor.last.outcome = "restarted"
    /\ DOMAIN supervisor.children_ = ChildIds
    /\ \A c \in ChildIds : supervisor.children_[c].restart_count >= 1

----------------------------------------------------------------------------
(* Claims about what the collections keep and what they reclaim.           *)

\* the pointers held by the registered roots
RootPtrs(g, sl) == {sl[g.roots[i]] : i \in 1..Len(g.roots)}

\* the object at ptr reads in g2 as it read in g
SameObject(g, g2, ptr) ==
    /\ IsObject(g2, ptr)
    /\ CellAt(g2, ptr - GCHeaderSize).size = CellAt(g, ptr - GCHeaderSize).size
    /\ \A k \in 0..(Cells(CellAt(g, ptr - GCHeaderSize).size) - 1) :
          CellAt(g2, ptr + k * GCHeaderSize) = CellAt(g, ptr + k * GCHeaderSize)

\* C11: after collect_full() every object a root refers to is still an
\* allocated object with the same size and the same contents at the address
\* the root holds.
C11_LiveObjectsKept ==
    [][gclast'.op = "collect_full" =>
          \A ptr \in RootPtrs(gc, slot) :
              IsObject(gc, ptr) => SameObject(gc, gc', ptr)]_vars

\* the bytes the objects at the pointers of S occupy, headers included
RECURSIVE Footprint(_, _)
Footprint(g, S) ==
    IF S = {} THEN 0
    ELSE LET ptr == CHOOSE x \in S : TRUE
         IN  GCHeaderSize + CellAt(g, ptr - GCHeaderSize).size
                 + Footprint(g, S \ {ptr})

\* the objects of generation gen that the roots refer to
LiveIn(g, sl, gen) ==
    {ptr \in RootPtrs(g, sl) : IsObject(g, ptr) /\ contains(gen, ptr)}

\* C12: after collect_full() each generation's used bytes equals the
\* footprint of the root-reachable objects it holds, and the total used
\* bytes never increases across collect_young() or collect_full().
C12_Reclamation ==
    [][/\ gclast'.op = "collect_full" =>
              /\ gc'.young.used = Footprint(gc', LiveIn(gc', slot', gc'.young))
              /\ gc'.old.used = Footprint(gc', LiveIn(gc', slot', gc'.old))
       /\ gclast'.op \in {"collect_young", "collect_full"} =>
              gc'.young.used + gc'.old.used <= gc.young.used + gc.old.used]_vars

\* C13: an object that has stayed root-reachable through PROMOTION_AGE
\* collect_young() passes in a row has a copy in the old generation, and the
\* reference the mutator holds still leads to an allocated object with the
\* contents it had.
C13_Promotion ==
    \A s \in Slots :
        gclast.kept[s] >= PROMOTION_AGE =>
            /\ IsObject(gc, slot[s])
            /\ \E a \in OldStart..(gc.old.alloc_ptr - 1) :
                  /\ (a - OldStart) % GCHeaderSize = 0
                  /\ IsObject(gc, a + GCHeaderSize)
                  /\ CellAt(gc, a).size = CellAt(gc, slot[s] - GCHeaderSize).size
                  /\ CellAt(gc, a + GCHeaderSize).val = CellAt(gc, slot[s]).val

----------------------------------------------------------------------------
(* The reduction counter of one quantum (actor_process.cpp)                *)

MaxYieldCalls  == 2002   \* should_yield() calls a behavior makes in one quantum
MaxYieldQuanta == 2      \* quanta the actor is run for

\* std::atomic<int>: fetch_sub(1) wraps around from the least 32-bit value
\* to the greatest
Int32Max == 2147483647

FetchSub1(x) == IF x = -Int32Max - 1 THEN Int32Max ELSE x - 1

\* the variant of should_yield that tests the counter after the decrement
should_yield_after(a) ==
    [actor |-> [a EXCEPT !.reductions = FetchSub1(@)],
     ret   |-> FetchSub1(a.reductions) <= 0]

\* should_yield: int remaining = reductions_.fetch_sub(1);
\* return remaining <= 0;  -- fetch_sub returns the value before the decrement
should_yield(a) ==
    [actor |-> [a EXCEPT !.reductions = FetchSub1(@)],
     ret   |-> a.reductions <= 0]

InitYield ==
    /\ subsystem = "quantum"
    /\ SupervisorIdle
    /\ MutexIdle
    /\ actor = ActorProcess(1, HeapSize)
    /\ buffer = 0
    /\ sentlog = <<>>
    /\ received = <<>>
    /\ calls = 0
    /\ yielded = [quanta |-> 0, calls |-> 0, ret |-> FALSE]
    /\ QueueIdle
    /\ GcIdle
    /\ SchedulerIdle

\* execute_quantum up to the call of the behavior: the compare_exchange
\* RUNNABLE -> RUNNING, then reductions_.store(REDUCTIONS_PER_SLICE)
QuantumEnter ==
    /\ subsystem = "quantum"
    /\ actor.state = "RUNNABLE"
    /\ yielded.quanta < MaxYieldQuanta
    /\ actor' = [actor EXCEPT !.state = "RUNNING",
                              !.reductions = REDUCTIONS_PER_SLICE]
    /\ yielded' = [quanta |-> yielded.quanta + 1, calls |-> 0, ret |-> FALSE]
    /\ UNCHANGED <<subsystem, mutexes, supervisor, buffer, sentlog, received, calls,
                   qvars, gvars, svars>>

\* the behavior calls should_yield()
YieldCall ==
    /\ subsystem = "quantum"
    /\ actor.state = "RUNNING"
    /\ yielded.calls < MaxYieldCalls
    /\ LET r == should_yield(actor)
       IN  /\ actor' = r.actor
           /\ yielded' = [yielded EXCEPT !.calls = @ + 1, !.ret = r.ret]
    /\ UNCHANGED <<subsystem, mutexes, supervisor, buffer, sentlog, received, calls,
                   qvars, gvars, svars>>

\* the behavior returns: execute_quantum stores RUNNABLE over RUNNING
QuantumReturn ==
    /\ subsystem = "quantum"
    /\ actor.state = "RUNNING"
    /\ actor' = [actor EXCEPT !.state = "RUNNABLE"]
    /\ UNCHANGED <<subsystem, uvars, buffer, sentlog, received, calls,
                   qvars, gvars, svars>>

NextYield == QuantumEnter \/ YieldCall \/ QuantumReturn

SpecYield == InitYield /\ [][NextYield]_vars

\* a should_yield() call of the quantum in progress has returned
InQuantum == subsystem = "quantum" /\ actor.state = "RUNNING" /\ yielded.calls >= 1

(* C18 as stated: within one quantum the counter starts at 2000 and drops  *)
(* by exactly one per should_yield() call; the call returns false before   *)
(* the budget is exhausted and true on the call that brings the counter to *)
(* zero and on every later call of the quantum.                            *)
C18_ReductionBudget ==
    InQuantum =>
        /\ actor.reductions = REDUCTIONS_PER_SLICE - yielded.calls
        /\ yielded.ret = (actor.reductions <= 0)

(* C18 amended: within one quantum the counter starts at 2000 and drops by *)
(* exactly one per should_yield() call; the call returns false on each of  *)
(* the first 2000 calls, the one that brings the counter to zero included, *)
(* and true on the 2001st and every later call of the quantum, for as long *)
(* as the 32-bit counter has not wrapped around.                           *)
C18_ReductionBudgetAmended ==
    InQuantum =>
        /\ actor.reductions = REDUCTIONS_PER_SLICE - yielded.calls
        /\ yielded.ret = (yielded.calls > REDUCTIONS_PER_SLICE)

\* the first call of a quantum that is told to yield
C18_Witness ==
    /\ InQuantum
    /\ yielded.calls = REDUCTIONS_PER_SLICE + 1
    /\ yielded.ret
    /\ actor.reductions = -1

----------------------------------------------------------------------------
(* receive() step by step: the actor's worker looks into the mailbox and,  *)
(* having found nothing, stores WAITING; a send() of another thread may    *)
(* run between the two.                                                    *)

\* receive: mailbox_.try_dequeue(); with a message the call goes on to
\* allocate the Message it returns, without one it is about to park
ReceiveLook(w) ==
    /\ threads[w].pc = "behavior"
    /\ LET a == scheduler.actors_[threads[w].pid]
           d == try_dequeue(a.mailbox)
       IN  IF d.has_value
           THEN /\ scheduler' = SetActor(scheduler, a.pid, receive(a).actor)
                /\ UNCHANGED threads
           ELSE /\ threads' = [threads EXCEPT ![w].pc = "receive_park"]
                /\ UNCHANGED scheduler
    /\ UNCHANGED <<subsystem, uvars, green, log, qvars, avars, gvars>>

\* receive: state_.store(WAITING); return nullptr
ReceivePark(w) ==
    /\ threads[w].pc = "receive_park"
    /\ scheduler' = SetActor(scheduler, threads[w].pid,
                        [scheduler.actors_[threads[w].pid] EXCEPT !.state = "WAITING"])
    /\ threads' = [threads EXCEPT ![w].pc = "behavior"]
    /\ UNCHANGED <<subsystem, uvars, green, log, qvars, avars, gvars>>

NextWake ==
    \/ NextCallers
    \/ NextQuantum
    \/ \E w \in Workers : WorkerGetNext(w)
    \/ \E w \in Workers : ReceiveLook(w)
    \/ \E w \in Workers : ReceivePark(w)
    \/ \E w \in Workers : WorkerAfterQuantum(w)

SpecWake == InitSched /\ [][NextWake]_vars

\* a send() to actor p is in progress
SendInProgress(p) ==
    \E t \in Callers :
        /\ threads[t].pid = p
        /\ threads[t].pc \in {"send_alloc", "send_copy", "send_enqueue", "send_wake"}

\* a receive() of actor p is in progress
ReceiveInProgress(p) ==
    \E w \in Workers : threads[w].pid = p /\ threads[w].pc = "receive_park"

(* C19: when send() to an actor runs concurrently with that actor's        *)
(* receive() finding the mailbox empty, no interleaving ends with the      *)
(* actor WAITING while its mailbox holds a message and no further send is  *)
(* coming: once both calls are over and the callers have made all their    *)
(* calls, a WAITING actor has an empty mailbox.                            *)
C19_NoLostWakeup ==
    subsystem = "scheduler" =>
        \A p \in DOMAIN scheduler.actors_ :
            LET a == scheduler.actors_[p]
            IN  (/\ a.state = "WAITING"
                 /\ log.calls = MaxSchedCalls
                 /\ \A t \in Callers : threads[t].pc = "ready"
                 /\ ~ReceiveInProgress(p))
                => ~try_dequeue(a.mailbox).has_value

----------------------------------------------------------------------------
(* Work stealing: the workers start with the queues that PreSpawned calls  *)
(* of spawn(message_behavior), made one after the other before any worker  *)
(* has looked, leave behind.  Nobody sends, so every actor parks in its     *)
(* first quantum and runs once.                                            *)

PreSpawned == 22     \* spawn calls completed before the workers look

\* spawn(behavior) run from start to end with no other thread in between
spawn(s) ==
    LET pid == s.next_pid_
        s1  == [Register(s, pid, ActorProcess(pid, HeapSize))
                   EXCEPT !.next_pid_ = fetch_add(@),
                          !.total_actors_spawned_ = @ + 1]
    IN  schedule_actor(s1, pid, choose_worker(s))

RECURSIVE SpawnAll(_, _)
SpawnAll(s, n) == IF n = 0 THEN s ELSE SpawnAll(spawn(s), n - 1)

\* message_behavior (tests/test_scheduler.cpp), one turn of its loop:
\* msg = self->receive(); then should_yield(), which ends the behavior when
\* it is true.  seen holds the msg of every turn made.
Turn(w, r, y) ==
    /\ scheduler' = SetActor(scheduler, threads[w].pid, y.actor)
    /\ threads' = IF y.ret
                  THEN [threads EXCEPT ![w].pc = "quantum_store",
                                       ![w].flag = (y.actor.state = "RUNNING")]
                  ELSE [threads EXCEPT ![w].seen = Append(@, r.msg)]

Received(w, r) == Turn(w, r, should_yield(r.actor))

MessageBehavior(w) ==
    /\ threads[w].pc = "behavior"
    /\ Len(threads[w].seen) < 3
    /\ Received(w, receive(scheduler.actors_[threads[w].pid]))
    /\ UNCHANGED <<subsystem, uvars, green, log, qvars, avars, gvars>>

\* message_behavior after the third turn: it returns, and execute_quantum
\* loads state_ into current
MessageBehaviorReturn(w) ==
    /\ threads[w].pc = "behavior"
    /\ Len(threads[w].seen) = 3
    /\ threads' = [threads EXCEPT
                      ![w].pc = "quantum_store",
                      ![w].flag = (scheduler.actors_[threads[w].pid].state = "RUNNING")]
    /\ UNCHANGED <<subsystem, uvars, green, scheduler, log, qvars, avars, gvars>>

InitSteal ==
    /\ subsystem = "stealing"
    /\ SupervisorIdle
    /\ MutexIdle
    /\ YieldIdle
    /\ scheduler = SpawnAll(Scheduler, PreSpawned)
    /\ threads = [t \in Workers \cup Callers |->
                     IF t \in Workers THEN ThreadAt("idle") ELSE ThreadAt("ready")]
    /\ log = Log(PreSpawned)
    /\ green = <<>>
    /\ QueueIdle
    /\ ActorIdle
    /\ GcIdle

NextSteal ==
    \/ \E w \in Workers : WorkerGetNext(w)
    \/ \E w \in Workers : WorkerExecuteQuantum(w)
    \/ \E w \in Workers : MessageBehavior(w)
    \/ \E w \in Workers : MessageBehaviorReturn(w)
    \/ \E w \in Workers : WorkerQuantumStore(w)
    \/ \E w \in Workers : WorkerAfterQuantum(w)
    \/ \E w \in Workers : WorkerSteal(w)

SpecSteal == InitSteal /\ [][NextSteal]_vars

\* the scheduler under callers that spawn, send and kill, and the scheduler
\* with long queues
InitOwn == InitSched \/ InitSteal

NextOwn ==
    \/ subsystem = "scheduler" /\ NextWake
    \/ subsystem = "stealing" /\ NextSteal

SpecOwn == InitOwn /\ [][NextOwn]_vars

\* the slots of the ready queues that hold actor p
QueueSlots(s, p) ==
    {<<w, i>> \in Workers \X (1..(PreSpawned + MaxSpawns + 1)) :
        i <= Len(s.run_queue[w]) /\ s.run_queue[w][i] = p}

\* the workers that have taken actor p from a queue and not yet put it back
\* or dropped it
Holders(th, p) == {w \in Workers : th[w].pid = p /\ th[w].pc \notin {"idle", "steal", "exited"}}

\* the actors in the queue of worker w
Queued(s, w) == {s.run_queue[w][i] : i \in 1..Len(s.run_queue[w])}

\* a step in which worker w comes back from steal_work
StealStep(w) == threads[w].pc = "steal" /\ threads'[w].pc = "idle"

(* C20: every actor is in at most one slot of one ready queue or held by   *)
(* at most one worker, never both; queue_size equals the length of the     *)
(* run_queue; and a steal_work from a victim other than the thief moves    *)
(* exactly floor(n/2) of the victim's n actors to the thief and neither    *)
(* loses nor duplicates an actor.                                          *)
C20_SingleOwnership ==
    /\ [](subsystem \in {"scheduler", "stealing"} =>
            /\ \A p \in DOMAIN scheduler.actors_ :
                  Cardinality(QueueSlots(scheduler, p)) + Cardinality(Holders(threads, p)) <= 1
            /\ \A w \in Workers :
                  scheduler.queue_size[w] = Len(scheduler.run_queue[w]))
    /\ [][\A w \in Workers : StealStep(w) =>
            LET v == log'.steals[Len(log'.steals)].victim
                n == Len(scheduler.run_queue[v])
            IN  IF v = w
                THEN scheduler' = scheduler
                ELSE /\ Len(scheduler'.run_queue[v]) = n - (n \div 2)
                     /\ Len(scheduler'.run_queue[w]) = Len(scheduler.run_queue[w]) + (n \div 2)
                     /\ Queued(scheduler', v) \cup Queued(scheduler', w)
                            = Queued(scheduler, v) \cup Queued(scheduler, w)
                     /\ Queued(scheduler', v) \cap Queued(scheduler', w) = {}
                     /\ \A u \in Workers \ {v, w} :
                            scheduler'.run_queue[u] = scheduler.run_queue[u]]_vars

\* a thief has taken actors from another worker's queue and runs one of them
C20_Witness ==
    /\ subsystem = "stealing"
    /\ \E i \in 1..Len(log.steals) :
          /\ log.steals[i].moved > 0
          /\ log.steals[i].thief # log.steals[i].victim
          /\ threads[log.steals[i].thief].pc = "behavior"

----------------------------------------------------------------------------
(* Stealing under fair scheduling: a worker thread that can take a step    *)
(* of worker_loop eventually takes one.                                    *)

WorkerStep(w) ==
    \/ WorkerGetNext(w)
    \/ WorkerExecuteQuantum(w)
    \/ MessageBehavior(w)
    \/ MessageBehaviorReturn(w)
    \/ WorkerQuantumStore(w)
    \/ WorkerAfterQuantum(w)
    \/ WorkerSteal(w)

FairSpecSteal == SpecSteal /\ \A w \in Workers : WF_vars(WorkerStep(w))

\* the steal_work calls of worker w that took actors
StealsBy(w) ==
    Cardinality({i \in 1..Len(log.steals) :
                    log.steals[i].thief = w /\ log.steals[i].moved > 0})

\* worker w waits with an empty queue while another worker's queue holds
\* more than STEAL_THRESHOLD actors
IdleWhileLoaded(w) ==
    /\ threads[w].pc = "idle"
    /\ scheduler.run_queue[w] = <<>>
    /\ \E v \in Workers \ {w} : scheduler.queue_size[v] > STEAL_THRESHOLD

(* C16: if one worker's queue holds more than the steal threshold (10)     *)
(* actors while another worker is idle with an empty queue, the idle       *)
(* worker eventually takes a batch from a victim's queue and executes a    *)
(* stolen actor.                                                           *)
C16_IdleWorkersSteal ==
    \A w \in Workers : \A n \in 0..NumWorkers :
        (IdleWhileLoaded(w) /\ StealsBy(w) = n)
            ~> (StealsBy(w) > n /\ threads[w].pc = "behavior")

\* an idle worker with an empty queue beside a queue of more than
\* STEAL_THRESHOLD actors
C16_Premise == subsystem = "stealing" /\ \E w \in Workers : IdleWhileLoaded(w)

----------------------------------------------------------------------------
(* shutdown(): the thread that owns the Scheduler spawns SpawnedFirst      *)
(* actors, calls shutdown() while the workers run them, and its destructor *)
(* calls shutdown() once more.  A behavior is any sequence of receive()    *)
(* calls ended by a return or a throw.                                     *)

SpawnedFirst == 2      \* spawn calls completed before shutdown() is called
MaxShutdowns == 2      \* shutdown() calls: the explicit one and ~Scheduler's

\* the thread that constructed the Scheduler
Owner == NumWorkers

AllExited == \A w \in Workers : threads[w].pc = "exited"

\* a shutdown that does not wait for the workers
ShutdownDetach(t) ==
    /\ threads[t].pc = "shutdown_join"
    /\ threads' = [threads EXCEPT ![t] = ThreadAt("ready")]
    /\ log' = [Returns(t, "shutdown", NoPid, TRUE) EXCEPT !.shutdowns = @ + 1]
    /\ UNCHANGED <<subsystem, uvars, green, scheduler, qvars, avars, gvars>>

\* shutdown: every joinable worker thread is joined; the call returns
ShutdownJoin(t) ==
    /\ threads[t].pc = "shutdown_join"
    /\ AllExited
    /\ threads' = [threads EXCEPT ![t] = ThreadAt("ready")]
    /\ log' = [Returns(t, "shutdown", NoPid, TRUE) EXCEPT !.shutdowns = @ + 1]
    /\ UNCHANGED <<subsystem, uvars, green, scheduler, qvars, avars, gvars>>

\* shutdown: system_running_.store(false); for every worker
\* running.store(false) and queue_cv.notify_all()
ShutdownStore(t) ==
    /\ t = Owner
    /\ threads[t].pc = "ready"
    /\ log.shutdowns < MaxShutdowns
    /\ scheduler' = [scheduler EXCEPT !.system_running_ = FALSE,
                                      !.running = [w \in Workers |-> FALSE]]
    /\ threads' = [threads EXCEPT ![t] = ThreadAt("shutdown_join")]
    /\ UNCHANGED <<subsystem, uvars, green, log, qvars, avars, gvars>>

InitShutdown ==
    /\ subsystem = "scheduler"
    /\ SupervisorIdle
    /\ MutexIdle
    /\ YieldIdle
    /\ scheduler = SpawnAll(Scheduler, SpawnedFirst)
    /\ InitThreads
    /\ green = <<>>
    /\ QueueIdle
    /\ ActorIdle
    /\ GcIdle

NextShutdown ==
    \/ NextQuantum
    \/ \E w \in Workers : WorkerGetNext(w)
    \/ \E w \in Workers : ReceiveLook(w)
    \/ \E w \in Workers : ReceivePark(w)
    \/ \E w \in Workers : WorkerAfterQuantum(w)
    \/ \E w \in Workers : WorkerExit(w)
    \/ \E t \in Callers : ShutdownStore(t)
    \/ \E t \in Callers : ShutdownJoin(t)

SpecShutdown == InitShutdown /\ [][NextShutdown]_vars

\* the steps of worker_loop and execute_quantum outside the behavior
LoopStep(w) ==
    \/ WorkerGetNext(w)
    \/ WorkerExecuteQuantum(w)
    \/ ReceivePark(w)
    \/ WorkerCrashFinish(w)
    \/ WorkerQuantumStore(w)
    \/ WorkerAfterQuantum(w)
    \/ WorkerExit(w)

\* the behavior ends
BehaviorEnds(w) == BehaviorReturn(w) \/ BehaviorThrow(w)

\* fair scheduling of the threads: the workers and the caller inside
\* shutdown go on, and every behavior that is entered ends
FairSpecShutdown ==
    /\ SpecShutdown
    /\ \A w \in Workers : WF_vars(LoopStep(w)) /\ SF_vars(BehaviorEnds(w))
    /\ WF_vars(ShutdownJoin(Owner))

----------------------------------------------------------------------------
(* The messages of the mailbox specification: producer p's n-th enqueue()  *)
(* carries [sender |-> p, seq |-> n]; its call has returned once p is past *)
(* the link store.                                                         *)

\* the messages whose enqueue() call has been entered
Entered ==
    {m \in [sender : Producers, seq : 1..MaxEnqueues] : m.seq <= producers[m.sender].sent}

\* the messages whose enqueue() call has returned
Returned ==
    {m \in Entered : producers[m.sender].pc = "idle" \/ m.seq < producers[m.sender].sent}

DequeuedSet == {dequeued[i] : i \in 1..Len(dequeued)}

\* try_dequeue() called in this state returns std::nullopt
ReportsEmpty == ~try_dequeue(mailbox_).has_value

(* C23: no loss and no duplication in the mailbox: every message is        *)
(* dequeued at most once, only messages that were enqueued are dequeued,   *)
(* and once every enqueue() call has returned, try_dequeue() returns a     *)
(* message for as long as one that was not dequeued remains, so repeated   *)
(* calls return all of them before returning none.                         *)
C23_NoLossNoDuplication ==
    /\ \A i, j \in 1..Len(dequeued) : dequeued[i] = dequeued[j] => i = j
    /\ DequeuedSet \subseteq Entered
    /\ (\A p \in Producers : producers[p].pc = "idle")
           => (ReportsEmpty <=> DequeuedSet = Entered)

\* every producer has returned from all its enqueue() calls, some messages
\* were dequeued while producers were still enqueueing and the rest after,
\* and the queue now reports empty with all of them dequeued
C23_Witness ==
    /\ \A p \in Producers : producers[p].pc = "idle" /\ producers[p].sent = MaxEnqueues
    /\ Len(dequeued) = NumProducers * MaxEnqueues
    /\ ReportsEmpty

(* C25: try_dequeue() reports empty only when the queue is empty: when     *)
(* some enqueue() call has returned and its message was not dequeued,      *)
(* try_dequeue() returns a message rather than none, also while other      *)
(* enqueue() calls are in progress.                                        *)
C25_EmptyOnlyWhenEmpty ==
    (Returned \ DequeuedSet # {}) => ~ReportsEmpty


----------------------------------------------------------------------------
(* The quantum specification: NumWorkers actors are spawned, the workers   *)
(* run them and the owner kills some.   A behavior calls receive() and     *)
(* should_yield() in any order, then returns or throws.                    *)

\* the behavior calls self->should_yield()
BehaviorYield(w) ==
    /\ threads[w].pc = "behavior"
    /\ LET a == scheduler.actors_[threads[w].pid]
       IN  /\ a.reductions > REDUCTIONS_PER_SLICE - MaxYields
           /\ scheduler' = SetActor(scheduler, a.pid, should_yield(a).actor)
    /\ UNCHANGED <<subsystem, uvars, green, threads, log, qvars, avars, gvars>>

NextEntry ==
    \/ NextQuantum
    \/ \E w \in Workers : WorkerGetNext(w)
    \/ \E w \in Workers : ReceiveLook(w)
    \/ \E w \in Workers : ReceivePark(w)
    \/ \E w \in Workers : BehaviorYield(w)
    \/ \E w \in Workers : WorkerAfterQuantum(w)
    \/ \E pid \in Pids : KillActor(Owner, pid)
    \/ KillFinish(Owner)

\* one actor in the run queue of each worker
InitEntry ==
    /\ subsystem = "scheduler"
    /\ SupervisorIdle
    /\ MutexIdle
    /\ YieldIdle
    /\ scheduler = SpawnAll(Scheduler, NumWorkers)
    /\ InitThreads
    /\ green = <<>>
    /\ QueueIdle
    /\ ActorIdle
    /\ GcIdle

SpecEntry == InitEntry /\ [][NextEntry]_vars

\* worker w is between the compare_exchange of execute_quantum and its
\* return
InsideQuantum(th, w) ==
    th[w].pc \in {"behavior", "receive_park", "crash_write", "quantum_store"}

\* the actor worker w holds
HeldActor(w) == scheduler.actors_[threads[w].pid]

(* C24: execute_quantum enters the behavior only by moving the actor from  *)
(* RUNNABLE to RUNNING in one atomic step, and then the reduction counter  *)
(* is 2000; on an actor in any other state it returns false and leaves the *)
(* state and the counter as they were.  A counter changes only by that     *)
(* reset or by going down inside the actor's quantum, and when the         *)
(* behavior returns and the state loaded is RUNNING the actor is set to    *)
(* RUNNABLE and execute_quantum returns true.                              *)
C24_QuantumEntry ==
    [][/\ \A w \in Workers :
            /\ threads[w].pc = "execute" /\ threads'[w].pc # "execute"
                  => IF HeldActor(w).state = "RUNNABLE"
                     THEN /\ threads'[w].pc = "behavior"
                          /\ HeldActor(w)'.state = "RUNNING"
                          /\ HeldActor(w)'.reductions = REDUCTIONS_PER_SLICE
                     ELSE /\ threads'[w].pc = "after"
                          /\ ~threads'[w].flag
                          /\ HeldActor(w)'.state = HeldActor(w).state
                          /\ HeldActor(w)'.reductions = HeldActor(w).reductions
            /\ InsideQuantum(threads', w) /\ ~InsideQuantum(threads, w)
                  => threads[w].pc = "execute" /\ HeldActor(w).state = "RUNNABLE"
            /\ threads[w].pc = "quantum_store" /\ threads'[w].pc # "quantum_store"
                  /\ threads[w].flag
                  => /\ HeldActor(w)'.state = "RUNNABLE"
                     /\ threads'[w].pc = "after"
                     /\ threads'[w].flag
       /\ \A pid \in DOMAIN scheduler.actors_ :
            scheduler'.actors_[pid].reductions # scheduler.actors_[pid].reductions
               => \E w \in Workers :
                     /\ threads[w].pid = pid
                     /\ \/ /\ threads[w].pc = "execute"
                           /\ scheduler'.actors_[pid].reductions = REDUCTIONS_PER_SLICE
                        \/ /\ InsideQuantum(threads, w)
                           /\ InsideQuantum(threads', w)
                           /\ scheduler'.actors_[pid].reductions
                                 < scheduler.actors_[pid].reductions]_vars

\* a second quantum of one actor: the first ended with the actor set back
\* to RUNNABLE after should_yield() calls, the second has reset the counter
\* and is inside the behavior, while execute_quantum on a killed actor has
\* returned false
C24_Witness ==
    \E w, v \in Workers :
        /\ w # v
        /\ threads[w].pc = "behavior"
        /\ HeldActor(w).state = "RUNNING"
        /\ HeldActor(w).reductions = REDUCTIONS_PER_SLICE
        /\ scheduler.total_reductions_ >= REDUCTIONS_PER_SLICE
        /\ threads[v].pc = "after"
        /\ ~threads[v].flag
        /\ HeldActor(v).state = "DEAD"
        /\ HeldActor(v).reductions < REDUCTIONS_PER_SLICE


----------------------------------------------------------------------------
(* The completion specification: one actor per worker; the owner kills     *)
(* actors and shuts the scheduler down while a second thread calls         *)
(* wait_for_completion(0).                                                 *)

Waiter == Owner + 1

\* wait_for_completion: the loop test; with system_running_ false the call
\* returns, otherwise num_alive_actors() locks actors_mutex_
WaitLoad(t) ==
    /\ threads[t].pc \in {"ready", "wait_sleep"}
    /\ IF scheduler.system_running_
       THEN /\ ~actors_mutex_held
            /\ threads' = [threads EXCEPT ![t] = ThreadAt("wait_count")]
            /\ UNCHANGED log
       ELSE /\ threads' = [threads EXCEPT ![t] = ThreadAt("ready")]
            /\ log' = Returns(t, "wait_for_completion", NoPid, FALSE)
    /\ UNCHANGED <<subsystem, uvars, green, scheduler, qvars, avars, gvars>>

\* num_alive_actors: one turn of the loop over actors_ (an unordered_map,
\* so in any order): actor->is_alive() of an actor not looked at yet
WaitCountStep(t) ==
    /\ threads[t].pc = "wait_count"
    /\ \E pid \in DOMAIN scheduler.actors_ :
          /\ \A i \in 1..Len(threads[t].seen) : threads[t].seen[i].pid # pid
          /\ threads' = [threads EXCEPT ![t].seen = Append(@,
                            [pid |-> pid, alive |-> is_alive(scheduler.actors_[pid])])]
    /\ UNCHANGED <<subsystem, uvars, green, scheduler, log, qvars, avars, gvars>>

\* num_alive_actors returns count and unlocks; wait_for_completion breaks
\* when alive == 0 and sleeps 100 ms otherwise (timeout_ms is 0)
WaitCountEnd(t) ==
    /\ threads[t].pc = "wait_count"
    /\ Len(threads[t].seen) = Cardinality(DOMAIN scheduler.actors_)
    /\ IF \A i \in 1..Len(threads[t].seen) : ~threads[t].seen[i].alive
       THEN /\ threads' = [threads EXCEPT ![t] = ThreadAt("ready")]
            /\ log' = Returns(t, "wait_for_completion", NoPid, TRUE)
       ELSE /\ threads' = [threads EXCEPT ![t] = ThreadAt("wait_sleep")]
            /\ UNCHANGED log
    /\ UNCHANGED <<subsystem, uvars, green, scheduler, qvars, avars, gvars>>

NextLife ==
    \/ NextQuantum
    \/ \E w \in Workers : WorkerGetNext(w)
    \/ \E w \in Workers : ReceiveLook(w)
    \/ \E w \in Workers : ReceivePark(w)
    \/ \E w \in Workers : WorkerAfterQuantum(w)
    \/ \E w \in Workers : WorkerExit(w)
    \/ \E pid \in Pids : KillActor(Owner, pid)
    \/ KillFinish(Owner)
    \/ ShutdownStore(Owner)
    \/ ShutdownJoin(Owner)
    \/ WaitLoad(Waiter)
    \/ WaitCountStep(Waiter)
    \/ WaitCountEnd(Waiter)

SpecLife == InitEntry /\ [][NextLife]_vars

\* the actors that are alive in scheduler state s
Alive(s) == {pid \in DOMAIN s.actors_ : is_alive(s.actors_[pid])}

\* this step is the return of wait_for_completion(0)
WaitReturns ==
    /\ threads'[Waiter].pc = "ready"
    /\ log'.last.op = "wait_for_completion"
    /\ log'.last # log.last \/ threads'[Waiter] # threads[Waiter]

(* C29: an actor whose behavior returns with the actor RUNNING is set to   *)
(* RUNNABLE and put back on the worker's queue, to be executed again; an   *)
(* actor stops being alive only in a step of a crash or of kill_actor, so  *)
(* the number of alive actors goes down only then; and when                *)
(* wait_for_completion(0) returns, no actor is alive or shutdown has       *)
(* begun.                                                                  *)
C29_ActorCompletion ==
    [][/\ \A w \in Workers :
            /\ threads[w].pc = "quantum_store" /\ threads'[w].pc = "after" /\ threads[w].flag
                  => HeldActor(w)'.state = "RUNNABLE"
            /\ threads[w].pc = "after" /\ threads'[w].pc # "after" /\ threads[w].flag
                  /\ HeldActor(w).state = "RUNNABLE"
                  => /\ scheduler'.run_queue[w] # <<>>
                     /\ scheduler'.run_queue[w][Len(scheduler'.run_queue[w])] = threads[w].pid
       /\ \A pid \in Alive(scheduler) \ Alive(scheduler') :
            \/ \E w \in Workers : /\ threads[w].pid = pid
                                  /\ threads[w].pc = "behavior"
                                  /\ threads'[w].pc = "crash_write"
            \/ /\ threads[Owner].pc = "ready"
               /\ threads'[Owner].pc = "kill_write"
               /\ threads'[Owner].pid = pid
       /\ WaitReturns => Alive(scheduler') = {} \/ ~scheduler.system_running_]_vars


----------------------------------------------------------------------------
(* The lock specification: the worker loop of GreenThreadScheduler with    *)
(* its mutexes.  mutexes says which thread holds each worker's queue_mutex *)
(* and threads_mutex_; a thread that wants a held mutex waits.  A critical *)
(* section that takes no second mutex is one step; get_next_ready_thread   *)
(* and try_steal_work are split where they hold a mutex.                   *)

Mutexes == [queue_mutex |-> [w \in Workers |-> NoPid], threads_mutex_ |-> NoPid]

InitLocks ==
    /\ subsystem = "locks"
    /\ SupervisorIdle
    /\ YieldIdle
    /\ mutexes = Mutexes
    /\ green = GreenThreadScheduler
    /\ scheduler = <<>>
    /\ InitThreads
    /\ QueueIdle
    /\ ActorIdle
    /\ GcIdle

lvars == <<subsystem, supervisor, yielded, scheduler, qvars, avars, gvars>>

\* the mutexes thread t holds
HeldBy(t) ==
    {w \in Workers : mutexes.queue_mutex[w] = t}
        \cup (IF mutexes.threads_mutex_ = t THEN {NumWorkers} ELSE {})

\* the next victim try_steal_work looks at after index i; NumWorkers when
\* the loop is over
NextVictim(thief_id, i) ==
    IF \E j \in Workers : j > i /\ j # thief_id
    THEN CHOOSE j \in Workers :
             /\ j > i /\ j # thief_id
             /\ \A k \in Workers : (k > i /\ k # thief_id) => j <= k
    ELSE NumWorkers

\* spawn: fetch_add, make_unique, and green_threads_[thread_id] under
\* threads_mutex_
SpawnRegisterLocked(t) ==
    /\ threads[t].pc = "ready"
    /\ green.next_thread_id_ < MaxLockSpawns
    /\ mutexes.threads_mutex_ = NoPid
    /\ LET id == green.next_thread_id_
       IN  /\ green' = [green EXCEPT
                          !.next_thread_id_ = fetch_add(@),
                          !.green_threads_ = [i \in (DOMAIN @) \cup {id} |->
                                                 IF i = id
                                                 THEN set_behavior(GreenThread(id, HeapSize))
                                                 ELSE @[i]]]
           /\ threads' = [threads EXCEPT ![t] = [ThreadAt("spawn_registered") EXCEPT !.pid = id]]
    /\ mutexes' = [mutexes EXCEPT !.threads_mutex_ = t]
    /\ UNCHANGED <<lvars, log>>

\* spawn: the lock_guard's scope ends; choose_worker() takes each
\* queue_mutex in turn and schedule_thread the chosen one
SpawnScheduleLocked(t) ==
    /\ threads[t].pc = "spawn_registered"
    /\ \A w \in Workers : mutexes.queue_mutex[w] = NoPid
    /\ LET s1 == [green EXCEPT !.total_green_threads_created_ = @ + 1]
       IN  green' = schedule_thread(s1, threads[t].pid, green_choose_worker(s1))
    /\ mutexes' = [mutexes EXCEPT !.threads_mutex_ = NoPid]
    /\ threads' = [threads EXCEPT ![t] = ThreadAt("ready")]
    /\ UNCHANGED <<lvars, log>>

\* get_next_ready_thread: lock_guard lock(worker.queue_mutex)
GetNextReadyLock(w) ==
    /\ threads[w].pc = "idle"
    /\ \A v \in Workers : green.threads_executed[v] < MaxQuanta
    /\ mutexes.queue_mutex[w] = NoPid
    /\ mutexes' = [mutexes EXCEPT !.queue_mutex[w] = w]
    /\ threads' = [threads EXCEPT ![w] = ThreadAt("get_next")]
    /\ UNCHANGED <<lvars, green, log>>

\* get_next_ready_thread: the front of ready_queue or nullptr; the mutex is
\* released when the function returns.  With nullptr worker_loop calls
\* try_steal_work (policy_ is WORK_STEALING).
GetNextReadyThreadHolding(w) ==
    /\ threads[w].pc = "get_next"
    /\ green.ready_queue[w] # <<>>
    /\ green' = [green EXCEPT !.ready_queue[w] = Tail(@)]
    /\ threads' = [threads EXCEPT ![w] =
                      [ThreadAt("gexecute") EXCEPT !.pid = Head(green.ready_queue[w])]]
    /\ UNCHANGED <<lvars, mutexes, log>>

GetNextReadyThread(w) ==
    /\ threads[w].pc = "get_next"
    /\ IF green.ready_queue[w] # <<>>
       THEN /\ green' = [green EXCEPT !.ready_queue[w] = Tail(@)]
            /\ threads' = [threads EXCEPT ![w] =
                              [ThreadAt("gexecute") EXCEPT !.pid = Head(green.ready_queue[w])]]
       ELSE /\ threads' = [threads EXCEPT ![w] =
                              [ThreadAt("steal_lock") EXCEPT !.worker = NextVictim(w, -1)]]
            /\ UNCHANGED green
    /\ mutexes' = [mutexes EXCEPT !.queue_mutex[w] = NoPid]
    /\ UNCHANGED <<lvars, log>>

\* worker_loop after execute_quantum: the counters, schedule_thread under
\* the worker's queue_mutex, then move_blocked_to_ready under it again
AfterQuantumLocked(w) ==
    /\ mutexes.queue_mutex[w] = NoPid
    /\ GreenAfterQuantum(w)

\* try_steal_work: lock_guard lock(victim.queue_mutex), or the loop is over
\* and the call returns false
TryStealLockVictim(w) ==
    /\ threads[w].pc = "steal_lock"
    /\ IF threads[w].worker = NumWorkers
       THEN /\ threads' = [threads EXCEPT ![w] = ThreadAt("wait")]
            /\ UNCHANGED mutexes
       ELSE /\ mutexes.queue_mutex[threads[w].worker] = NoPid
            /\ mutexes' = [mutexes EXCEPT !.queue_mutex[threads[w].worker] = w]
            /\ threads' = [threads EXCEPT ![w].pc = "steal_look"]
    /\ UNCHANGED <<lvars, green, log>>

\* try_steal_work: a victim with more than one ready thread loses its last
\* one, and the thief goes on to its own queue_mutex with the victim's
\* still held; otherwise the victim's mutex is released and the loop goes on
TryStealLook(w) ==
    /\ threads[w].pc = "steal_look"
    /\ LET i      == threads[w].worker
           victim == green.ready_queue[i]
       IN  IF Len(victim) > 1
           THEN /\ green' = [green EXCEPT
                                !.ready_queue[i] = SubSeq(victim, 1, Len(victim) - 1)]
                /\ threads' = [threads EXCEPT ![w].pc = "steal_own",
                                              ![w].pid = victim[Len(victim)]]
                /\ UNCHANGED mutexes
           ELSE /\ mutexes' = [mutexes EXCEPT !.queue_mutex[i] = NoPid]
                /\ threads' = [threads EXCEPT ![w] =
                                  [ThreadAt("steal_lock") EXCEPT !.worker = NextVictim(w, i)]]
                /\ UNCHANGED green
    /\ UNCHANGED <<lvars, log>>

\* try_steal_work: lock_guard thief_lock(thief.queue_mutex); push_back;
\* return true, which releases both
TryStealLockThief(w) ==
    /\ threads[w].pc = "steal_own"
    /\ mutexes.queue_mutex[w] = NoPid
    /\ green' = [green EXCEPT !.ready_queue[w] = Append(@, threads[w].pid)]
    /\ mutexes' = [mutexes EXCEPT !.queue_mutex[threads[w].worker] = NoPid]
    /\ threads' = [threads EXCEPT ![w] = ThreadAt("move_blocked")]
    /\ UNCHANGED <<lvars, log>>

\* worker_loop, nothing to steal: unique_lock lock(worker.queue_mutex);
\* queue_cv.wait_for(lock, 10 ms)
WorkerWait(w) ==
    /\ threads[w].pc = "wait"
    /\ mutexes.queue_mutex[w] = NoPid
    /\ threads' = [threads EXCEPT ![w] = ThreadAt("move_blocked")]
    /\ UNCHANGED <<lvars, green, mutexes, log>>

\* worker_loop: move_blocked_to_ready(worker_id), under the worker's
\* queue_mutex
MoveBlockedToReady(w) ==
    /\ threads[w].pc = "move_blocked"
    /\ mutexes.queue_mutex[w] = NoPid
    /\ green' = move_blocked_to_ready(green, w)
    /\ threads' = [threads EXCEPT ![w] = ThreadAt("idle")]
    /\ UNCHANGED <<lvars, mutexes, log>>

\* the same for Scheduler: one actor in the run queue of each worker;
\* threads_mutex_ stands for its actors_mutex_
InitSchedLocks ==
    /\ subsystem = "locks"
    /\ SupervisorIdle
    /\ YieldIdle
    /\ mutexes = Mutexes
    /\ scheduler = SpawnAll(Scheduler, NumWorkers)
    /\ green = <<>>
    /\ InitThreads
    /\ QueueIdle
    /\ ActorIdle
    /\ GcIdle

\* get_next_actor: lock_guard lock(worker.queue_mutex)
GetNextActorLock(w) ==
    /\ threads[w].pc = "idle"
    /\ scheduler.running[w]
    /\ scheduler.total_reductions_ < log.max_quanta * REDUCTIONS_PER_SLICE
    /\ mutexes.queue_mutex[w] = NoPid
    /\ mutexes' = [mutexes EXCEPT !.queue_mutex[w] = w]
    /\ threads' = [threads EXCEPT ![w] = ThreadAt("get_next")]
    /\ UNCHANGED <<subsystem, supervisor, yielded, scheduler, green, log, qvars, avars, gvars>>

\* get_next_actor: the front of run_queue or nullptr; the mutex is released
\* when the function returns.  With nullptr worker_loop waits on queue_cv
\* and looks again.
GetNextActor(w) ==
    /\ threads[w].pc = "get_next"
    /\ IF scheduler.run_queue[w] # <<>>
       THEN /\ scheduler' = [scheduler EXCEPT !.run_queue[w] = Tail(@),
                                              !.queue_size[w] = @ - 1]
            /\ threads' = [threads EXCEPT ![w] =
                              [ThreadAt("execute") EXCEPT !.pid = Head(scheduler.run_queue[w])]]
       ELSE /\ threads' = [threads EXCEPT ![w] = ThreadAt("idle")]
            /\ UNCHANGED scheduler
    /\ mutexes' = [mutexes EXCEPT !.queue_mutex[w] = NoPid]
    /\ UNCHANGED <<subsystem, supervisor, yielded, green, log, qvars, avars, gvars>>

\* worker_loop after execute_quantum: schedule_actor takes actors_mutex_
\* and then the worker's queue_mutex, one after the other
AfterQuantumSched(w) ==
    /\ mutexes.queue_mutex[w] = NoPid
    /\ mutexes.threads_mutex_ = NoPid
    /\ WorkerAfterQuantum(w)

NextGreenLocks ==
    \/ SpawnRegisterLocked(Owner)
    \/ SpawnScheduleLocked(Owner)
    \/ \E w \in Workers : GetNextReadyLock(w)
    \/ \E w \in Workers : GetNextReadyThread(w)
    \/ \E w \in Workers : GreenExecuteCheck(w)
    \/ \E w \in Workers : GreenStoreRunning(w)
    \/ \E w \in Workers : GreenBehaviorReceive(w)
    \/ \E w \in Workers : GreenBehaviorReturn(w)
    \/ \E w \in Workers : GreenBehaviorThrow(w)
    \/ \E w \in Workers : AfterQuantumLocked(w)
    \/ \E w \in Workers : TryStealLockVictim(w)
    \/ \E w \in Workers : TryStealLook(w)
    \/ \E w \in Workers : TryStealLockThief(w)
    \/ \E w \in Workers : WorkerWait(w)
    \/ \E w \in Workers : MoveBlockedToReady(w)

NextSchedLocks ==
    \/ NextQuantum
    \/ \E w \in Workers : GetNextActorLock(w)
    \/ \E w \in Workers : GetNextActor(w)
    \/ \E w \in Workers : ReceiveLook(w)
    \/ \E w \in Workers : ReceivePark(w)
    \/ \E w \in Workers : AfterQuantumSched(w)

NextLocks ==
    \/ green # <<>> /\ NextGreenLocks
    \/ scheduler # <<>> /\ NextSchedLocks

SpecLocks == (InitLocks \/ InitSchedLocks) /\ [][NextLocks]_vars

\* every worker of S holds a victim's queue_mutex and waits for its own,
\* which another worker of S holds
WaitCycle(S) ==
    /\ S # {}
    /\ \A w \in S : /\ threads[w].pc = "steal_own"
                    /\ mutexes.queue_mutex[threads[w].worker] = w
                    /\ mutexes.queue_mutex[w] \in S

(* C21: stealing is deadlock-free: in no reachable state is there a set of *)
(* workers each of which holds one queue mutex and waits for a queue mutex *)
(* that another worker of the set holds.                                   *)
C21_StealingDeadlockFree == \A S \in SUBSET Workers : ~WaitCycle(S)

\* worker w is inside the behavior function
InBehavior(w) == threads[w].pc \in {"gbehavior", "behavior", "receive_park"}

(* C30: no lock is held while a behavior function executes: a worker that  *)
(* is inside a behavior holds no worker's queue mutex and not the registry *)
(* mutex.                                                                  *)
C30_NoLockInBehavior == \A w \in Workers : InBehavior(w) => HeldBy(w) = {}

\* a worker is inside a behavior, having taken the thread under its queue
\* mutex, while another worker holds that very queue mutex on its way to
\* steal from it
C30_Witness ==
    \E w, v \in Workers :
        /\ InBehavior(w)
        /\ threads[v].pc = "steal_look"
        /\ threads[v].worker = w
        /\ HeldBy(v) = {w}


----------------------------------------------------------------------------
(* The requeue specification: PerQueue actors wait in the run queue of     *)
(* each worker and the workers run them; a behavior may park the actor in  *)
(* receive(), return or throw.  In the fair version every worker thread    *)
(* goes on and every behavior that is entered ends.                        *)

InitRequeue ==
    /\ subsystem = "scheduler"
    /\ SupervisorIdle
    /\ MutexIdle
    /\ YieldIdle
    /\ scheduler = SpawnAll(Scheduler, PerQueue * NumWorkers)
    /\ InitThreads
    /\ green = <<>>
    /\ QueueIdle
    /\ ActorIdle
    /\ GcIdle

NextRequeue ==
    \/ NextQuantum
    \/ \E w \in Workers : WorkerGetNext(w)
    \/ \E w \in Workers : ReceiveLook(w)
    \/ \E w \in Workers : ReceivePark(w)
    \/ \E w \in Workers : WorkerAfterQuantum(w)

\* either scheduler
SpecRequeue ==
    /\ InitRequeue \/ InitLocks
    /\ [][(scheduler # <<>> /\ NextRequeue) \/ (green # <<>> /\ NextGreenLocks)]_vars

FairSpecRequeue ==
    /\ SpecRequeue
    /\ \A w \in Workers : WF_vars(scheduler # <<>> /\ LoopStep(w))
    /\ \A w \in Workers : SF_vars(scheduler # <<>> /\ BehaviorEnds(w))

\* the workers have run all the quanta the model lets them run
QuantaSpent == scheduler.total_reductions_ >= log.max_quanta * REDUCTIONS_PER_SLICE

\* q2 keeps a stretch of q1 in its order and has, behind it, only threads
\* that were not in q1: nothing was put ahead of one that waits
OrderKept(q1, q2) ==
    \E i \in 1..(Len(q1) + 1) : \E j \in (i - 1)..Len(q1) :
        /\ Len(q2) >= j - i + 1
        /\ SubSeq(q2, 1, j - i + 1) = SubSeq(q1, i, j)
        /\ \A n \in (j - i + 2)..Len(q2) : \A m \in 1..Len(q1) : q2[n] # q1[m]

\* actor p of the Scheduler waits in a run queue and is RUNNABLE
WaitsRunnable(p) ==
    IF scheduler # <<>>
    THEN QueuedOn(scheduler, p) /\ scheduler.actors_[p].state = "RUNNABLE"
    ELSE FALSE

\* actor p is inside its behavior, or is not RUNNABLE any more, or the
\* workers have run all the quanta the model lets them run
RunsOrGone(p) ==
    IF scheduler # <<>>
    THEN \/ \E w \in Workers : threads[w].pid = p /\ threads[w].pc = "behavior"
         \/ scheduler.actors_[p].state # "RUNNABLE"
         \/ QuantaSpent
    ELSE FALSE

\* green thread id is READY and waits on the ready queue of worker w
WaitsReadyOn(id, w) ==
    /\ green # <<>>
    /\ id \in DOMAIN green.green_threads_
    /\ green.green_threads_[id].state = "READY"
    /\ \E i \in 1..Len(green.ready_queue[w]) : green.ready_queue[w][i] = id

(* C28: after a quantum the worker puts the actor at the back of its own   *)
(* ready queue if and only if the actor is alive and RUNNABLE (READY for a *)
(* green thread); a worker takes the actor at the front of its queue and   *)
(* nothing is ever put ahead of a waiting actor, so each actor ahead of it *)
(* runs one quantum at most before it; and with the behaviors returning,   *)
(* a runnable actor that waits in a ready queue gets executed: on the      *)
(* Scheduler it reaches its behavior, and on the GreenThreadScheduler the  *)
(* worker whose queue it waits on is never stuck for good behind a mutex.  *)
C28_RequeueFairness ==
    /\ [][scheduler # <<>> =>
           \A w \in Workers :
            /\ OrderKept(scheduler.run_queue[w], scheduler'.run_queue[w])
            /\ threads[w].pc = "after" /\ threads'[w].pc # "after"
                  => IF is_alive(HeldActor(w)) /\ HeldActor(w).state = "RUNNABLE"
                     THEN scheduler'.run_queue[w]
                             = Append(scheduler.run_queue[w], threads[w].pid)
                     ELSE scheduler'.run_queue = scheduler.run_queue
            /\ threads[w].pc = "idle" /\ threads'[w].pc = "execute"
                  => /\ scheduler.run_queue[w] # <<>>
                     /\ threads'[w].pid = Head(scheduler.run_queue[w])
                     /\ scheduler'.run_queue[w] = Tail(scheduler.run_queue[w])]_vars
    /\ [][green # <<>> =>
           \A w \in Workers :
            /\ OrderKept(green.ready_queue[w], green'.ready_queue[w])
            /\ threads[w].pc = "gafter" /\ threads'[w].pc # "gafter"
                  => IF green.green_threads_[threads[w].pid].state = "READY"
                     THEN /\ Len(green'.ready_queue[w]) > Len(green.ready_queue[w])
                          /\ green'.ready_queue[w][Len(green.ready_queue[w]) + 1]
                                = threads[w].pid
                     ELSE \A i \in 1..Len(green'.ready_queue[w]) :
                              green'.ready_queue[w][i] # threads[w].pid
            /\ threads[w].pc = "get_next" /\ threads'[w].pc = "gexecute"
                  => /\ green.ready_queue[w] # <<>>
                     /\ threads'[w].pid = Head(green.ready_queue[w])
                     /\ green'.ready_queue[w] = Tail(green.ready_queue[w])]_vars
    /\ \A p \in 0..(PerQueue * NumWorkers - 1) : WaitsRunnable(p) ~> RunsOrGone(p)
    /\ [](\A id \in 0..(MaxLockSpawns - 1) : \A w \in Workers :
              WaitsReadyOn(id, w) => \A S \in SUBSET Workers : w \in S => ~WaitCycle(S))

----------------------------------------------------------------------------
(* The collector with a mutator that links objects: an old object with     *)
(* pointer fields, young objects held in a local variable only, stores     *)
(* through gc_write_barrier.                                               *)

\* slot[s] = gc.allocate_old(size, 0, true), its fields set to nullptr
GcAllocateOldRefs(s, size) ==
    /\ gccalls < MaxGcCalls
    /\ LET r == allocate_old(gc, slot, size, 0, TRUE)
       IN  /\ gc' = StoreData(r.gc, r.ptr, size, nullptr)
           /\ slot' = [slot EXCEPT ![s] = r.ptr]
           /\ gclast' = Last("allocate_old", size, r.ptr, gc', slot')
    /\ gccalls' = gccalls + 1
    /\ UNCHANGED <<subsystem, uvars, svars, qvars, avars>>

\* void* tmp = gc.allocate(size): the result is kept in a local variable
\* that is no root, and the object filled
GcAllocateTemp(size) ==
    /\ gccalls < MaxGcCalls
    /\ LET r == gc_allocate(gc, slot, size, 0, FALSE)
       IN  /\ gc' = StoreData(r.gc, r.ptr, size, gccalls + 1)
           /\ gclast' = Last("allocate", size, r.ptr, gc', slot)
    /\ gccalls' = gccalls + 1
    /\ UNCHANGED <<subsystem, uvars, svars, slot, qvars, avars>>

\* the old object slot[s] has pointer fields
HasFields(g, ptr) ==
    /\ IsObject(g, ptr)
    /\ contains(g.old, ptr)
    /\ CellAt(g, ptr - GCHeaderSize).has_refs

\* gc_write_barrier(slot[s], &slot[s]->field[0], tmp), with current_actor_gc
\* set to the collector, and then slot[s]->field[0] = tmp, for the young
\* object tmp that the allocate() before returned
GcStoreRef(s) ==
    /\ gccalls < MaxGcCalls
    /\ HasFields(gc, slot[s])
    /\ gclast.op = "allocate"
    /\ IsObject(gc, gclast.ptr)
    /\ contains(gc.young, gclast.ptr)
    /\ gc' = SetCell(write_barrier(gc, CellAt(gc, slot[s]).val, gclast.ptr),
                     slot[s], DataCell(gclast.ptr))
    /\ gclast' = Last("write_barrier", 0, gclast.ptr, gc', slot)
    /\ gccalls' = gccalls + 1
    /\ UNCHANGED <<subsystem, uvars, svars, slot, qvars, avars>>

NextHeap ==
    \/ \E s \in Slots, size \in GcSizes : GcAllocate(s, size)
    \/ \E s \in Slots, size \in GcSizes : GcAllocateOldRefs(s, size)
    \/ \E size \in GcSizes : GcAllocateTemp(size)
    \/ \E s \in Slots : GcStoreRef(s)
    \/ \E s \in Slots : GcAddRoot(s)
    \/ GcCollectYoung

SpecHeap == InitGc /\ [][NextHeap]_vars

\* the old objects with pointer fields, by header
OldWithFields(g) ==
    {a \in OldStart..(g.old.alloc_ptr - 1) :
        /\ (a - OldStart) % GCHeaderSize = 0
        /\ HasFields(g, a + GCHeaderSize)}

\* the young objects that a field of the object at header a refers to
YoungRefs(g, a) ==
    {r \in RefsOf(g, a) : r # nullptr /\ contains(g.young, r) /\ IsObject(g, r)}

\* C27: write_barrier for a store of a young pointer into an old object
\* records the old object in the remembered set, and the next
\* collect_young() marks every young object that a field of an old object
\* refers to.
C27_WriteBarrier ==
    [][/\ gclast'.op = "write_barrier" /\ gccalls' = gccalls + 1 =>
           \A s \in Slots :
               (HasFields(gc', slot[s]) /\ CellAt(gc', slot[s]).val = gclast'.ptr)
                   => (slot[s] - GCHeaderSize) \in gc'.remembered_set
       /\ gclast'.op = "collect_young" /\ gccalls' = gccalls + 1 =>
           \A a \in OldWithFields(gc) : \A r \in YoungRefs(gc, a) :
               CellAt(gc', r - GCHeaderSize).marked]_vars

\* the variable s is a registered root and refers to an object that was
\* allocated at slot[s] and not overwritten since
RootObject(g, s) ==
    /\ \E i \in 1..Len(g.roots) : g.roots[i] = s
    /\ slot[s] # nullptr
    /\ contains(g.young, slot[s]) \/ contains(g.old, slot[s])
    /\ CellAt(g, slot[s] - GCHeaderSize).kind = "hdr"

\* [ptr - header, ptr + size) and the object at obj, header included, share
\* a byte
Overlaps(g, ptr, size, obj) ==
    /\ ptr - GCHeaderSize < obj + Align16(CellAt(g, obj - GCHeaderSize).size)
    /\ obj - GCHeaderSize < ptr + Align16(size)

\* C22: the range that allocate() or allocate_old() returns overlaps no
\* object that a registered root refers to at the time of the call.
C22_NoReuseOfLive ==
    [][(/\ gclast'.op \in {"allocate", "allocate_old"}
        /\ gccalls' = gccalls + 1
        /\ gclast'.ptr # nullptr)
          => \A s \in Slots :
                 RootObject(gc, s) => ~Overlaps(gc, gclast'.ptr, gclast'.size, slot[s])]_vars

----------------------------------------------------------------------------
(* An actor under a supervisor: the supervisor has the actor as its only   *)
(* child, the actor is linked to it with set_supervisor and to monitors    *)
(* with add_monitor, and crashes.                                          *)

SupervisorPid == NumChildren + 1
MonitorPids   == {SupervisorPid + 1, SupervisorPid + 2}

InitExit ==
    /\ subsystem = "exit"
    /\ \E strategy \in Strategies, policy \in Policies :
          supervisor = add_child(Supervisor(strategy, MaxRestartsN, MaxTimeWindow),
                                 1, policy)
    /\ actor = ActorProcess(supervisor.children_[1].pid, HeapSize)
    /\ buffer = 0
    /\ sentlog = <<>>
    /\ received = <<>>
    /\ calls = 0
    /\ YieldIdle
    /\ MutexIdle
    /\ QueueIdle
    /\ GcIdle
    /\ SchedulerIdle

\* actor.set_supervisor(SupervisorPid)
ExitSetSupervisor ==
    /\ actor.supervisor_pid_ = NoPid
    /\ actor' = set_supervisor(actor, SupervisorPid)
    /\ UNCHANGED <<subsystem, uvars, svars, qvars, gvars, buffer, sentlog, received, calls>>

\* actor.add_monitor(pid) for a pid that does not monitor the actor yet
ExitAddMonitor(pid) ==
    /\ \A i \in 1..Len(actor.monitored_by_) : actor.monitored_by_[i] # pid
    /\ actor' = add_monitor(actor, pid)
    /\ UNCHANGED <<subsystem, uvars, svars, qvars, gvars, buffer, sentlog, received, calls>>

\* the actor's behavior throws: execute_quantum's catch block calls
\* handle_crash(reason), which is all that happens
ExitCrash(reason) ==
    /\ is_alive(actor)
    /\ actor' = handle_crash(actor, reason, supervisor.now)
    /\ UNCHANGED <<subsystem, uvars, svars, qvars, gvars, buffer, sentlog, received, calls>>

NextExit ==
    \/ ExitSetSupervisor
    \/ \E pid \in MonitorPids : ExitAddMonitor(pid)
    \/ \E reason \in Reasons : ExitCrash(reason)
    \/ SupTick

SpecExit == InitExit /\ [][NextExit]_vars

FairSpecExit == SpecExit /\ WF_vars(NextExit)

\* the actor has crashed and has a supervisor
CrashedUnderSupervisor ==
    /\ actor.state = "DEAD"
    /\ actor.exit_reason # NoExit
    /\ actor.supervisor_pid_ # NoPid

\* handle_child_exit was invoked for the actor with its crash reason
ChildExitHandled ==
    /\ supervisor.last.op = "exit"
    /\ supervisor.last.id = 1
    /\ supervisor.last.reason = actor.exit_reason.error_msg

\* C26: once an actor that has a supervisor has crashed, the supervisor's
\* handle_child_exit is eventually invoked with the actor's pid and crash
\* reason.
C26_ExitNotification == CrashedUnderSupervisor ~> ChildExitHandled

=============================================================================
